---- MODULE Spec2Model ----
(***************************************************************************)
(* Model of the Mira assistant for smart glasses (drewomix/Oasis):         *)
(*   - TranscriptionManager (src/src/index.ts, second listing, l.614-1450):*)
(*     wake-word / listening-window controller with its debounce timer,    *)
(*     hard-cutoff timer, photo cache and processQuery pipeline;           *)
(*   - MiraAgent.handleContext (src/src/agents/MiraAgent.ts l.204-395):    *)
(*     the bounded tool-calling loop over the persisted message log.       *)
(*   - Anim (src/src/utils/anim.ts l.1-101): the processing animation,     *)
(*     which draws only while the socket to the glasses is open.           *)
(*                                                                         *)
(* Texts are sequences of one-character strings, so that the cleaning,     *)
(* matching and stripping code is modelled by what it computes.  Wall-clock*)
(* time is not stored: a timer is an entry of the set `timers` that may    *)
(* fire at any moment while it is pending, and a comparison against        *)
(* Date.now() whose outcome the stored state does not determine is a       *)
(* nondeterministic choice.                                                *)
(***************************************************************************)
EXTENDS Integers, Sequences, FiniteSets, TLC

(***************************************************************************)
(* Bounds of the model                                                     *)
(***************************************************************************)
\* processQuery invocations that may await the transcript fetch at once
MaxFetching == 1
\* processQuery invocations that may be past the lock check at once
MaxHolders == 2
\* camera requests that may be outstanding at once
MaxPhotoReq == 1
\* messages the log may hold when a further handleContext call is admitted
MaxLogAtCall == 3
\* turns of one handleContext call in which the model may emit any batch
MaxRichTurns == 1
\* notifications the buffer of one user may hold
MaxNotifications == 3
\* sound chains that may go on at once after their invocation ended
MaxOrphanSounds == 1

(***************************************************************************)
(* Program constants                                                       *)
(***************************************************************************)
\* while (turns < 5)
MaxTurns == 5
\* timerDuration for a non-final fragment
DebounceNonFinal == 3000
\* timerDuration for a final fragment that ends with a wake word
DebounceWakeOnly == 10000
\* timerDuration for every other final fragment
DebounceFinal == 1500
\* the maximum listening timer
HardCutoffMs == 15000
\* resetListeningState(2000) in the finally block of processQuery
GraceMs == 2000
\* the photo is dropped 30 s after it resolved
PhotoTtlMs == 30000

(***************************************************************************)
(* Texts                                                                   *)
(***************************************************************************)
Str_HeyMiraDot == <<"H","e","y"," ","M","i","r","a",".">>
Str_HeyMiraGo  == <<"h","e","y"," ","m","i","r","a"," ","g","o">>
Str_HeCommaMira == <<"h","e",","," "," ","m","i","r","a","!">>
Str_GoOn       == <<"g","o"," ","o","n">>
Str_Dots       == <<" ",".",".","."," ">>

\* a representative subset of explicitWakeWords, in the order of the list
explicitWakeWords ==
    << <<"h","e","y"," ","m","i","r","a">>,
       <<"h","e"," ","m","i","r","a">>,
       <<"h","e","y","-","m","i","r","a">>,
       <<"A","m","i","r","a">>,
       <<"a","m","i","r","a">>,
       <<"a"," ","m","i","r","a">> >>

\* String.prototype.toLowerCase on the characters the texts use
LowerChar(c) ==
    CASE c = "H" -> "h"
      [] c = "M" -> "m"
      [] c = "A" -> "a"
      [] c = "T" -> "t"
      [] c = "R" -> "r"
      [] c = "U" -> "u"
      [] c = "E" -> "e"
      [] OTHER -> c

toLowerCase(s) == [k \in 1..Len(s) |-> LowerChar(s[k])]

\* the character class \s, which is also what trim() removes: the white
\* space characters and the line terminators (a character that has no
\* escape in a string of this module is written by its code point)
IsSpace(c) ==
    c \in {" ", "\t", "\n", "\r", "\f", "U+000B", "U+00A0", "U+1680",
           "U+2000", "U+2001", "U+2002", "U+2003", "U+2004", "U+2005", "U+2006",
           "U+2007", "U+2008", "U+2009", "U+200A", "U+2028", "U+2029", "U+202F",
           "U+205F", "U+3000", "U+FEFF"}

\* the characters "." does not match in a regular expression without the s flag
IsLineTerminator(c) == c \in {"\n", "\r", "U+2028", "U+2029"}

\* .replace(/[.,!?;:]/g, '')
RECURSIVE StripPunct(_)
StripPunct(s) ==
    IF s = <<>> THEN <<>>
    ELSE IF Head(s) \in {".", ",", "!", "?", ";", ":"}
         THEN StripPunct(Tail(s))
         ELSE <<Head(s)>> \o StripPunct(Tail(s))

\* .replace(/\s+/g, ' ')
RECURSIVE CollapseSpace(_)
CollapseSpace(s) ==
    IF s = <<>> THEN <<>>
    ELSE IF IsSpace(Head(s))
         THEN IF Len(s) > 1 /\ IsSpace(s[2])
              THEN CollapseSpace(Tail(s))
              ELSE <<" ">> \o CollapseSpace(Tail(s))
         ELSE <<Head(s)>> \o CollapseSpace(Tail(s))

RECURSIVE TrimLeft(_)
TrimLeft(s) ==
    IF s # <<>> /\ IsSpace(Head(s)) THEN TrimLeft(Tail(s)) ELSE s

RECURSIVE TrimRight(_)
TrimRight(s) ==
    IF s # <<>> /\ IsSpace(s[Len(s)])
    THEN TrimRight(SubSeq(s, 1, Len(s) - 1))
    ELSE s

\* String.prototype.trim
Trim(s) == TrimRight(TrimLeft(s))

\* const cleanedText = text.toLowerCase().replace(...).replace(...).trim()
CleanText(text) == Trim(CollapseSpace(StripPunct(toLowerCase(text))))

\* w occurs in s at position p (1-based)
MatchAt(s, w, p) ==
    /\ p + Len(w) - 1 <= Len(s)
    /\ \A k \in 1..Len(w) : s[p + k - 1] = w[k]

\* explicitWakeWords.some(word => cleanedText.includes(word))
HasWakeWord(cleanedText) ==
    \E n \in 1..Len(explicitWakeWords), p \in 1..(Len(cleanedText) + 1) :
        MatchAt(cleanedText, explicitWakeWords[n], p)

\* new RegExp(`${word}$`, 'i').test(cleanedText) for some word
EndsWithWord(s, w) ==
    /\ Len(w) <= Len(s)
    /\ MatchAt(toLowerCase(s), toLowerCase(w), Len(s) - Len(w) + 1)


\* word.split(' ')
RECURSIVE SplitOnSpace(_, _)
SplitOnSpace(w, acc) ==
    IF w = <<>> THEN <<acc>>
    ELSE IF Head(w) = " "
         THEN <<acc>> \o SplitOnSpace(Tail(w), <<>>)
         ELSE SplitOnSpace(Tail(w), Append(acc, Head(w)))

\* the greedy class [\s,\.]* between the parts of a wake word, from p
RECURSIVE SkipSep(_, _, _)
SkipSep(s, p, cls) ==
    IF p <= Len(s) /\ (IsSpace(s[p]) \/ s[p] \in cls)
    THEN SkipSep(s, p + 1, cls)
    ELSE p

\* position after parts.join('[\\s,\\.]*') matched at p under flag i, 0 if none
RECURSIVE PatternEnd(_, _, _)
PatternEnd(s, parts, p) ==
    IF ~MatchAt(toLowerCase(s), toLowerCase(Head(parts)), p) THEN 0
    ELSE LET q == p + Len(Head(parts)) IN
         IF Len(parts) = 1 THEN q
         ELSE PatternEnd(s, Tail(parts), SkipSep(s, q, {",", "."}))

\* position after the first alternative of the wake regex that matches at p
RECURSIVE FirstAltEnd(_, _, _)
FirstAltEnd(s, p, n) ==
    IF n > Len(explicitWakeWords) THEN 0
    ELSE LET e == PatternEnd(s, SplitOnSpace(explicitWakeWords[n], <<>>), p) IN
         IF e # 0 THEN e ELSE FirstAltEnd(s, p, n + 1)

\* the leftmost position at or after p where an alternative of the wake
\* regex matches, 0 if none
RECURSIVE WakeMatchAt(_, _)
WakeMatchAt(s, p) ==
    IF p > Len(s) THEN 0
    ELSE IF FirstAltEnd(s, p, 1) # 0 THEN p ELSE WakeMatchAt(s, p + 1)

\* removeWakeWord(text); wakeWordRequired is isWakeWordRequired().
\* text.replace(wakeRegex, '') removes the match only: the lazy prefix .*?
\* does not cross a line terminator, so the match starts after the last line
\* terminator ahead of the wake word and what stands before it is kept
removeWakeWord(text, wakeWordRequired) ==
    IF ~wakeWordRequired THEN Trim(text)
    ELSE LET p == WakeMatchAt(text, 1) IN
         IF p = 0 THEN Trim(text)
         ELSE LET breaks == {k \in 1..(p - 1) : IsLineTerminator(text[k])}
                  from == IF breaks = {} THEN 1
                          ELSE 1 + CHOOSE k \in breaks : \A j \in breaks : j <= k
                  r == SkipSep(text, FirstAltEnd(text, p, 1), {",", ".", "!"})
              IN  Trim(SubSeq(text, 1, from - 1) \o SubSeq(text, r, Len(text)))

\* endsWithWakeWord(text)
endsWithWakeWord(text, wakeWordRequired) ==
    IF ~wakeWordRequired THEN FALSE
    ELSE LET cleanedText == CleanText(text) IN
         \E n \in 1..Len(explicitWakeWords) :
             EndsWithWord(cleanedText, explicitWakeWords[n])

\* segments.map(segment => segment.text).join(' ')
RECURSIVE JoinSegments(_)
JoinSegments(segs) ==
    IF segs = <<>> THEN <<>>
    ELSE IF Len(segs) = 1 THEN segs[1]
    ELSE segs[1] \o <<" ">> \o JoinSegments(Tail(segs))

(***************************************************************************)
(* Inputs                                                                  *)
(***************************************************************************)
\* the texts a transcription fragment or a transcript segment may carry
Texts == {Str_HeyMiraDot, Str_HeyMiraGo, Str_HeCommaMira, Str_GoOn, Str_Dots, <<>>}

\* transcriptionData: { text, isFinal }
Fragments == [text : Texts, isFinal : BOOLEAN]

\* bodies of the transcript endpoint that parse and carry a segments array
SegmentLists == {<<>>, <<Str_HeyMiraDot>>, <<Str_HeyMiraGo>>, <<Str_GoOn>>,
                 <<Str_HeyMiraDot, Str_GoOn>>}

\* what the await of the transcript fetch can yield
FetchOutcomes ==
    [kind : {"networkError", "httpError", "emptyBody", "badJson", "noSegments"},
     segments : {<<>>}]
    \cup [kind : {"ok"}, segments : SegmentLists]

\* the text functions tabulated over the inputs, per wake-word mode
CleanTable == [t \in Texts |-> CleanText(t)]
HasWakeTable == [t \in Texts |-> HasWakeWord(CleanTable[t])]
EndsWakeTable == [t \in Texts |-> [w \in BOOLEAN |-> endsWithWakeWord(CleanTable[t], w)]]
DisplayTable == [t \in Texts |-> [w \in BOOLEAN |-> removeWakeWord(t, w)]]
QueryTable ==
    [segs \in SegmentLists |-> [w \in BOOLEAN |->
        IF w THEN removeWakeWord(JoinSegments(segs), TRUE)
             ELSE Trim(JoinSegments(segs))]]

(***************************************************************************)
(* State                                                                   *)
(***************************************************************************)
VARIABLES
    isProcessingQuery,      \* TranscriptionManager.isProcessingQuery
    isListeningToQuery,     \* TranscriptionManager.isListeningToQuery
    transcriptionStartTime, \* 0, or the Date.now() of the first detection
    timeoutId,              \* handle of the debounce timer, or NoTimer
    maxListeningTimeoutId,  \* handle of the hard-cutoff timer, or NoTimer
    timers,                 \* pending setTimeout callbacks of the session
    fetching,               \* processQuery invocations awaiting the fetch
    inv,                    \* the invocations past the lock check, by slot
    activePhoto,            \* activePhotos.get(sessionId)
    photoReqs,              \* camera requests whose promise is unsettled
    messages,               \* MiraAgent.messages
    agentTools,             \* names of MiraAgent.agentTools
    lastResult,             \* what the last handleContext call returned
    lastLlmCalls,           \* model invocations that call had made
    settings,               \* session settings and capabilities
    lastHeadPosition,       \* TranscriptionManager.lastHeadPosition
    headWakeWindowUntilMs,  \* end of the head-up wake window, 0 when closed
    headWindowTimeoutId,    \* handle of the head-up window timer
    stopped,                \* onStop ran: cleanup() and removal from the session map
    locationContext,        \* MiraAgent.locationContext
    window,                 \* history: windows started, final renderings of the first
    notificationsPerUser,   \* NotificationsManager.notificationsPerUser
    latestNotifications,    \* what the last getLatestNotifications call returned
    wsReadyState,           \* session.ws.readyState: 0 connecting, 1 open, 2 closing, 3 closed
    orphanSounds,           \* sound chains whose processQuery ended in its catch block
    emit,                   \* display / audio calls issued by the last step
    lastOp                  \* the handler or continuation that ran last

vars == <<isProcessingQuery, isListeningToQuery, transcriptionStartTime,
          timeoutId, maxListeningTimeoutId, timers, fetching, inv, activePhoto,
          photoReqs, messages, agentTools, lastResult, lastLlmCalls,
          settings, lastHeadPosition, headWakeWindowUntilMs, headWindowTimeoutId,
          stopped, locationContext, window, notificationsPerUser,
          latestNotifications, wsReadyState, orphanSounds, emit, lastOp>>

ctrlVars == <<isProcessingQuery, isListeningToQuery, transcriptionStartTime,
              timeoutId, maxListeningTimeoutId, timers>>
photoVars == <<activePhoto, photoReqs>>
agentVars == <<messages, lastResult, lastLlmCalls>>
headVars == <<lastHeadPosition, headWakeWindowUntilMs, headWindowTimeoutId, stopped>>

\* a Date.now() reading, which is never 0
NowStamp == 1

\* the length of the head-up wake window
HeadWindowMs == 10000

Slots == 1..MaxHolders

\* a slot no invocation occupies
FreeSlot == [pc |-> "free", calls |-> <<>>, turns |-> 0,
             out |-> <<>>, llmCalls |-> 0, direct |-> FALSE,
             photo |-> "null", req |-> 0, trigger |-> <<>>,
             anim |-> FALSE, plays |-> 0]

\* the value of a handle field that is undefined
NoTimer == <<"none", 0>>

\* no entry in activePhotos
NoPhoto == [req |-> 0, data |-> FALSE]

\* new MiraAgent(...): the tools registered by the constructor
BuiltinTools == {"Search_Engine", "TPA_ListApps", "TPA_Commands",
                 "Internal_Thinking", "Calculator"}

\* tools getAllToolsForUser may append later
UserTools == {"Timer", "AppTool"}

\* settings.get('always_listening'), speak_response || !hasDisplay, hasCamera,
\* settings.get('wake_requires_head_up'); audioSettles says whether the audio
\* service of the glasses ever resolves the promise playAudio returns (the
\* processing sound is replayed from the .then callbacks of that promise)
SettingsSpace == [alwaysListening : BOOLEAN, speak : BOOLEAN, hasCamera : BOOLEAN,
                  wakeRequiresHeadUp : BOOLEAN, audioSettles : BOOLEAN]

\* MiraAgent.locationContext as the field initialiser leaves it; handleLocation's
\* fallbackLocationContext is the same value
fallbackLocationContext ==
    [city |-> "Unknown", state |-> "Unknown", country |-> "Unknown",
     timezone |-> [name |-> "Unknown", shortName |-> "Unknown",
                   fullName |-> "Unknown", offsetSec |-> 0, isDst |-> FALSE]]

Init ==
    /\ isProcessingQuery = FALSE
    /\ isListeningToQuery = FALSE
    /\ transcriptionStartTime = 0
    /\ timeoutId = NoTimer
    /\ maxListeningTimeoutId = NoTimer
    /\ timers = {}
    /\ fetching = 0
    /\ inv = [i \in Slots |-> FreeSlot]
    /\ activePhoto = NoPhoto
    /\ photoReqs = {}
    /\ messages = <<>>
    /\ agentTools = BuiltinTools
    /\ lastResult = [kind |-> "unset", text |-> <<>>]
    /\ lastLlmCalls = 0
    /\ settings \in SettingsSpace
    /\ lastHeadPosition = "null"
    /\ headWakeWindowUntilMs = 0
    /\ headWindowTimeoutId = NoTimer
    /\ stopped = FALSE
    /\ locationContext = fallbackLocationContext
    /\ window \in [on : BOOLEAN, started : {0}, renders : {0}]
    /\ notificationsPerUser = <<>>
    /\ latestNotifications = <<>>
    /\ wsReadyState = 1
    /\ orphanSounds = [k \in 1..4 |-> 0]
    /\ emit = <<>>
    /\ lastOp = "init"

(***************************************************************************)
(* Timers                                                                  *)
(***************************************************************************)
\* setTimeout(cb, ms): kind names the callback, arg its captured argument;
\* the handle setTimeout returns is the pair <<kind, id>>
Timer(id, kind, arg) == [id |-> id, kind |-> kind, arg |-> arg]

HandleOf(t) == <<t.kind, t.id>>

\* a clearTimeout that cancels nothing
clearTimeout_CancelsNothing(ts, handle) == ts

\* clearTimeout(handle): a no-op when the timer has fired or was never set
clearTimeout(ts, handle) == {t \in ts : HandleOf(t) # handle}

\* an id for a new timer of a kind: one that no pending timer of the kind and
\* none of the given handles carries
FreshId(ts, kind, handles) ==
    LET used == {t.id : t \in {u \in ts : u.kind = kind}}
                \cup {h[2] : h \in {g \in handles : g[1] = kind}}
    IN  CHOOSE n \in 1..(Cardinality(used) + 1) :
            /\ n \notin used
            /\ \A m \in 1..(n - 1) : m \in used

PendingOf(kind) == {t \in timers : t.kind = kind}

\* the window history after a step, kept by a session that records it: a
\* step that starts a listening window counts it (up to 2), and a step that
\* renders a final response counts the rendering (up to 2) while the first
\* window is the only one that ever started
WindowAfter(starting, rendered) ==
    IF ~window.on THEN window
    ELSE IF starting
    THEN [window EXCEPT !.started = IF @ = 0 THEN 1 ELSE 2, !.renders = 0]
    ELSE IF rendered /\ window.started = 1 /\ window.renders < 2
         THEN [window EXCEPT !.renders = @ + 1]
         ELSE window

\* isWakeWordRequired()
isWakeWordRequired == ~settings.alwaysListening

\* the slot an invocation takes when it passes the lock check
NextFreeSlot == CHOOSE i \in Slots : inv[i].pc = "free" /\ \A j \in 1..(i - 1) : inv[j].pc # "free"

HasFreeSlot == \E i \in Slots : inv[i].pc = "free"

\* processQuery(rawText, timerDuration) up to `await fetch(backendUrl)`
processQueryCall ==
    /\ fetching < MaxFetching
    /\ fetching' = fetching + 1

(***************************************************************************)
(* handleTranscription                                                     *)
(***************************************************************************)
\* a duration choice that does not look for a trailing wake word
TimerDuration_NoWakeWordWait(frag) ==
    IF frag.isFinal THEN DebounceFinal ELSE DebounceNonFinal

\* the debounce duration handleTranscription picks for a fragment
TimerDuration(frag) ==
    IF frag.isFinal
    THEN IF isWakeWordRequired /\ EndsWakeTable[frag.text][isWakeWordRequired]
         THEN DebounceWakeOnly
         ELSE DebounceFinal
    ELSE DebounceNonFinal

\* a gate that ignores the head-up window
WakeGateRejects_NoHeadGate(frag, within) ==
    /\ ~isListeningToQuery
    /\ \/ isWakeWordRequired /\ ~HasWakeTable[frag.text]
       \/ ~isWakeWordRequired /\ CleanTable[frag.text] = <<>>

\* a gate that only rejects fragments whose cleaned text is empty
WakeGateRejects_EmptyOnly(frag, within) ==
    /\ ~isListeningToQuery
    /\ CleanTable[frag.text] = <<>>

\* the gate in front of a session that is not listening yet; within is the
\* outcome of `now <= this.headWakeWindowUntilMs`
WakeGateRejects(frag, within) ==
    /\ ~isListeningToQuery
    /\ \/ isWakeWordRequired /\ ~HasWakeTable[frag.text]
       \/ isWakeWordRequired /\ settings.wakeRequiresHeadUp /\ ~within
       \/ ~isWakeWordRequired /\ CleanTable[frag.text] = <<>>

\* camera requests that are unsettled or whose 30 s expiry is still pending
LivePhotoReqs == photoReqs \cup {t.arg : t \in PendingOf("photoTTL")}

FreshPhotoReq ==
    LET used == LivePhotoReqs \cup {activePhoto.req}
    IN  CHOOSE n \in 1..(Cardinality(used) + 1) :
            n \notin used /\ \A m \in 1..(n - 1) : m \in used

\* the photo entry after the "older than 5 seconds" check
PhotoAfterStaleCheck(stale) ==
    IF activePhoto # NoPhoto /\ stale THEN NoPhoto ELSE activePhoto

\* session.layouts.showTextWall(text)
Show(text) == [ch |-> "show", text |-> text]

\* session.audio.playAudio({audioUrl})
PlayAudio(url) == [ch |-> "audio", text |-> <<url>>]

\* session.audio.speak(text)
Speak(text) == [ch |-> "speak", text |-> text]

\* showOrSpeakText(text), up to its await
showOrSpeakText(text) ==
    <<Show(text)>> \o (IF settings.speak THEN <<Speak(text)>> ELSE <<>>)

\* the live display of what the user is saying
ListeningDisplay(frag) ==
    LET displayText == DisplayTable[frag.text][isWakeWordRequired] IN
    IF Trim(displayText) = <<>>
    THEN Show(<<"Listening...">>)
    ELSE Show(<<"Listening...", "\n\n">> \o displayText)

\* a handleTranscription that arms a hard-cutoff timer for every accepted
\* fragment, listening or not
AcceptTranscription_ArmsCutoffEachTime(frag, stale) ==
    LET kept == PhotoAfterStaleCheck(stale)
        needPhoto == kept = NoPhoto /\ settings.hasCamera
        starting == ~isListeningToQuery
        cutId == FreshId(timers, "cutoff", {maxListeningTimeoutId})
        ts1 == timers \cup {Timer(cutId, "cutoff", HardCutoffMs)}
        maxId == <<"cutoff", cutId>>
        ts2 == clearTimeout(ts1, timeoutId)
        debId == FreshId(ts2, "debounce", {})
    IN  /\ needPhoto => Cardinality(LivePhotoReqs) < MaxPhotoReq
        /\ activePhoto' = IF needPhoto
                          THEN [req |-> FreshPhotoReq, data |-> FALSE]
                          ELSE kept
        /\ photoReqs' = IF needPhoto THEN photoReqs \cup {FreshPhotoReq} ELSE photoReqs
        /\ maxListeningTimeoutId' = maxId
        /\ isListeningToQuery' = TRUE
        /\ transcriptionStartTime' =
               IF transcriptionStartTime = 0 THEN NowStamp ELSE transcriptionStartTime
        /\ timeoutId' = <<"debounce", debId>>
        /\ timers' = ts2 \cup {Timer(debId, "debounce", TimerDuration(frag))}
        /\ emit' = (IF starting /\ settings.speak THEN <<PlayAudio("start.mp3")>> ELSE <<>>)
                   \o <<ListeningDisplay(frag)>>
        /\ window' = WindowAfter(starting, FALSE)
        /\ UNCHANGED <<isProcessingQuery, fetching, inv, agentVars, agentTools, settings,
                   headVars, locationContext,
                   notificationsPerUser, latestNotifications,
                   wsReadyState, orphanSounds>>

\* the body of handleTranscription once the re-entrancy check passed
AcceptTranscription(frag, stale) ==
    LET kept == PhotoAfterStaleCheck(stale)
        needPhoto == kept = NoPhoto /\ settings.hasCamera
        starting == ~isListeningToQuery
        cutId == FreshId(timers, "cutoff", {maxListeningTimeoutId})
        ts1 == IF starting
               THEN timers \cup {Timer(cutId, "cutoff", HardCutoffMs)}
               ELSE timers
        maxId == IF starting THEN <<"cutoff", cutId>> ELSE maxListeningTimeoutId
        ts2 == clearTimeout(ts1, timeoutId)
        debId == FreshId(ts2, "debounce", {})
    IN  /\ needPhoto => Cardinality(LivePhotoReqs) < MaxPhotoReq
        /\ activePhoto' = IF needPhoto
                          THEN [req |-> FreshPhotoReq, data |-> FALSE]
                          ELSE kept
        /\ photoReqs' = IF needPhoto THEN photoReqs \cup {FreshPhotoReq} ELSE photoReqs
        /\ maxListeningTimeoutId' = maxId
        /\ isListeningToQuery' = TRUE
        /\ transcriptionStartTime' =
               IF transcriptionStartTime = 0 THEN NowStamp ELSE transcriptionStartTime
        /\ timeoutId' = <<"debounce", debId>>
        /\ timers' = ts2 \cup {Timer(debId, "debounce", TimerDuration(frag))}
        /\ emit' = (IF starting /\ settings.speak THEN <<PlayAudio("start.mp3")>> ELSE <<>>)
                   \o <<ListeningDisplay(frag)>>
        /\ window' = WindowAfter(starting, FALSE)
        /\ UNCHANGED <<isProcessingQuery, fetching, inv, agentVars, agentTools, settings,
                   headVars, locationContext,
                   notificationsPerUser, latestNotifications,
                   wsReadyState, orphanSounds>>

\* handleTranscription without its re-entrancy check
handleTranscription_NoLockCheck(frag, stale, within) ==
    /\ lastOp' = "handleTranscription"
    /\ stale => activePhoto # NoPhoto
    /\ within => headWakeWindowUntilMs # 0
    /\ IF WakeGateRejects(frag, within)
       THEN /\ emit' = <<>>
            /\ UNCHANGED <<ctrlVars, fetching, inv, photoVars, agentVars, agentTools,
                           settings,
                   headVars, locationContext, window,
                   notificationsPerUser, latestNotifications,
                   wsReadyState, orphanSounds>>
       ELSE AcceptTranscription(frag, stale)

\* handleTranscription(transcriptionData)
handleTranscription(frag, stale, within) ==
    /\ lastOp' = "handleTranscription"
    /\ stale => activePhoto # NoPhoto
    /\ within => headWakeWindowUntilMs # 0
    /\ IF isProcessingQuery \/ WakeGateRejects(frag, within)
       THEN /\ emit' = <<>>
            /\ UNCHANGED <<ctrlVars, fetching, inv, photoVars, agentVars, agentTools,
                           settings,
                   headVars, locationContext, window,
                   notificationsPerUser, latestNotifications,
                   wsReadyState, orphanSounds>>
       ELSE AcceptTranscription(frag, stale)

(***************************************************************************)
(* Timer callbacks                                                         *)
(***************************************************************************)
\* the debounce callback: () => this.processQuery(text, timerDuration)
DebounceFire(t) ==
    /\ lastOp' = "DebounceFire"
    /\ t \in PendingOf("debounce")
    /\ timers' = timers \ {t}
    /\ processQueryCall
    /\ emit' = <<>>
    /\ UNCHANGED <<isProcessingQuery, isListeningToQuery, transcriptionStartTime,
                   timeoutId, maxListeningTimeoutId, inv, photoVars, agentVars,
                   agentTools, settings,
                   headVars, locationContext, window,
                   notificationsPerUser, latestNotifications,
                   wsReadyState, orphanSounds>>

\* the hard-cutoff callback: clears the debounce, then processQuery(text, 15000)
CutoffFire(t) ==
    /\ lastOp' = "CutoffFire"
    /\ t \in PendingOf("cutoff")
    /\ timers' = clearTimeout(timers \ {t}, timeoutId)
    /\ timeoutId' = NoTimer
    /\ processQueryCall
    /\ emit' = <<>>
    /\ UNCHANGED <<isProcessingQuery, isListeningToQuery, transcriptionStartTime,
                   maxListeningTimeoutId, inv, photoVars, agentVars, agentTools,
                   settings,
                   headVars, locationContext, window,
                   notificationsPerUser, latestNotifications,
                   wsReadyState, orphanSounds>>

\* the callback resetListeningState(delayMs > 0) leaves behind
GraceFire(t) ==
    /\ lastOp' = "GraceFire"
    /\ t \in PendingOf("grace")
    /\ timers' = timers \ {t}
    /\ isProcessingQuery' = FALSE
    /\ emit' = <<>>
    /\ UNCHANGED <<isListeningToQuery, transcriptionStartTime, timeoutId,
                   maxListeningTimeoutId, fetching, inv, photoVars, agentVars,
                   agentTools, settings,
                   headVars, locationContext, window,
                   notificationsPerUser, latestNotifications,
                   wsReadyState, orphanSounds>>

(***************************************************************************)
(* Photo promise                                                           *)
(***************************************************************************)
\* getPhoto() calls racing the promise of request r learn how it settled
SettleWaiters(r, how) ==
    [i \in Slots |->
        IF inv[i].pc = "photo" /\ inv[i].photo = "wait" /\ inv[i].req = r
        THEN [inv[i] EXCEPT !.photo = how]
        ELSE inv[i]]

\* a resolution handler that stores the photo without arming its expiry
PhotoResolve_NoExpiry(r) ==
    /\ lastOp' = "PhotoResolve"
    /\ r \in photoReqs
    /\ photoReqs' = photoReqs \ {r}
    /\ activePhoto' = [req |-> r, data |-> TRUE]
    /\ inv' = SettleWaiters(r, "data")
    /\ emit' = <<>>
    /\ UNCHANGED <<ctrlVars, fetching, agentVars, agentTools, settings,
                   headVars, locationContext, window,
                   notificationsPerUser, latestNotifications,
                   wsReadyState, orphanSounds>>

\* getPhotoPromise.then(photoData => ...): stores the photo, arms the expiry
PhotoResolve(r) ==
    /\ lastOp' = "PhotoResolve"
    /\ r \in photoReqs
    /\ photoReqs' = photoReqs \ {r}
    /\ activePhoto' = [req |-> r, data |-> TRUE]
    /\ timers' = timers \cup
          {Timer(FreshId(timers, "photoTTL", {}), "photoTTL", r)}
    /\ inv' = SettleWaiters(r, "data")
    /\ emit' = <<>>
    /\ UNCHANGED <<isProcessingQuery, isListeningToQuery, transcriptionStartTime,
                   timeoutId, maxListeningTimeoutId, fetching, agentVars,
                   agentTools, settings,
                   headVars, locationContext, window,
                   notificationsPerUser, latestNotifications,
                   wsReadyState, orphanSounds>>

\* the rejection handler: deletes whatever entry the session holds
PhotoReject(r) ==
    /\ lastOp' = "PhotoReject"
    /\ r \in photoReqs
    /\ photoReqs' = photoReqs \ {r}
    /\ activePhoto' = NoPhoto
    /\ inv' = SettleWaiters(r, "reject")
    /\ emit' = <<>>
    /\ UNCHANGED <<ctrlVars, fetching, agentVars, agentTools, settings,
                   headVars, locationContext, window,
                   notificationsPerUser, latestNotifications,
                   wsReadyState, orphanSounds>>

\* the 30 s callback: deletes the entry if it still belongs to this request
PhotoTtlFire(t) ==
    /\ lastOp' = "PhotoTtlFire"
    /\ t \in PendingOf("photoTTL")
    /\ timers' = timers \ {t}
    /\ activePhoto' = IF activePhoto.req = t.arg THEN NoPhoto ELSE activePhoto
    /\ emit' = <<>>
    /\ UNCHANGED <<isProcessingQuery, isListeningToQuery, transcriptionStartTime,
                   timeoutId, maxListeningTimeoutId, fetching, inv, photoReqs,
                   agentVars, agentTools, settings,
                   headVars, locationContext, window,
                   notificationsPerUser, latestNotifications,
                   wsReadyState, orphanSounds>>

\* getAllToolsForUser(...).then(tools => agent.agentTools.push(...tools))
UserToolsLoaded ==
    /\ lastOp' = "UserToolsLoaded"
    /\ ~(UserTools \subseteq agentTools)
    /\ agentTools' = agentTools \cup UserTools
    /\ emit' = <<>>
    /\ UNCHANGED <<ctrlVars, fetching, inv, photoVars, agentVars, settings,
                   headVars, locationContext, window,
                   notificationsPerUser, latestNotifications,
                   wsReadyState, orphanSounds>>

(***************************************************************************)
(* MiraAgent: messages, tool calls and results                             *)
(***************************************************************************)
FinalMarker == "Final Answer:"

\* model outputs (result.content) as token sequences
OutThinking == <<"let me check">>
OutFinal    == <<"ok", FinalMarker, " ", "42", " ">>
OutTwoMarkers == <<"draft", FinalMarker, " ", "41", " ", FinalMarker, " ", "42">>

\* a message of the log; unused fields hold their neutral value
Msg(type, calls, content, callId, name, status) ==
    [type |-> type, calls |-> calls, content |-> content, callId |-> callId,
     name |-> name, status |-> status]

SystemMessage == Msg("system", <<>>, <<"prompt">>, 0, "", "")

\* new HumanMessage(...): the query text; whether the image_url part is attached
\* is kept in the invocation's photo field, not in the log
HumanMessage == Msg("human", <<>>, <<"query">>, 0, "", "")

\* the AIMessage llm.invoke returned: its text and its tool_calls
AIMessage(out, calls) == Msg("ai", calls, out, 0, "", "")

\* new ToolMessage({ content, tool_call_id, name })
ToolMessage(call, content) == Msg("tool", <<>>, content, call.id, call.name, "")

\* the placeholder for a tool that is not registered
UnavailableToolMessage(call) ==
    Msg("tool", <<>>, <<"Tool unavailable">>, call.id, "", "error")

\* tool calls carried by the AI messages of a log
RECURSIVE CallsIn(_)
CallsIn(log) ==
    IF log = <<>> THEN <<>>
    ELSE (IF log[1].type = "ai" THEN log[1].calls ELSE <<>>) \o CallsIn(Tail(log))

\* the tool calls of a response, with ids the log has not used yet
MakeCalls(log, names) ==
    [k \in 1..Len(names) |-> [id |-> Len(CallsIn(log)) + k, name |-> names[k]]]

\* output.includes("Final Answer:")
HasFinalMarker(out) == \E k \in 1..Len(out) : out[k] = FinalMarker

\* index of the first marker at or after position p, 0 if none
RECURSIVE MarkerFrom(_, _)
MarkerFrom(out, p) ==
    IF p > Len(out) THEN 0
    ELSE IF out[p] = FinalMarker THEN p ELSE MarkerFrom(out, p + 1)

\* parseOutput(text).insight: text.split(finalMarker)[1].trim() for a text
\* with the marker; a text without it is parsed as JSON, and the texts of
\* the model are neither JSON nor hold an "insight" field, so that JSON.parse
\* throws, the regular expression finds nothing and the fallback is returned
parseOutput(out) ==
    LET a == MarkerFrom(out, 1)
        b == MarkerFrom(out, a + 1)
        piece == SubSeq(out, a + 1, IF b = 0 THEN Len(out) ELSE b - 1)
    IN  IF a = 0 THEN <<"Error processing query.">> ELSE Trim(piece)

\* the texts llm.invoke may answer with, and parseOutput tabulated over them
ModelOutputs == {OutThinking, OutFinal, OutTwoMarkers}
ParseTable == [o \in ModelOutputs |-> parseOutput(o)]

\* what handleContext returns
ResultUndefined == [kind |-> "undefined", text |-> <<>>]
ResultHandoff   == [kind |-> "handoff", text |-> <<>>]
ResultText(t)   == [kind |-> "text", text |-> t]
ResultNoQuery   == [kind |-> "object", text |-> <<"No query provided.">>]
ErrorText       == <<"Error processing query.">>
TimerJson       == <<"{", "timer_set", "}">>
CannedNoInfo    == <<"Tool executed successfully but did not return any information.">>

\* what awaiting selectedTool.invoke can yield
ToolOutcomeKinds == {"text", "empty", "throw", "handoff", "timerJson"}

\* toolResult as a string, before the ToolMessage is built
ToolContent(outcome) ==
    CASE outcome = "text" -> <<"result">>
      [] outcome = "empty" -> <<>>
      [] outcome = "throw" -> <<"Error executing tool">>
      [] outcome = "timerJson" -> TimerJson

\* a ToolMessage built from whatever the tool returned, blank or not
NormalizeContent_KeepsBlank(content) == content

\* content || "Tool executed successfully but did not return any information."
NormalizeContent(content) == IF content = <<>> THEN CannedNoInfo ELSE content

\* a timer check that does not look at the tool's name
IsTimerEvent_AnyTool(call, content) == content = TimerJson

\* the Timer special case: JSON with event timer_set and a duration
IsTimerEvent(call, content) == call.name = "Timer" /\ content = TimerJson

\* a loop condition that admits one turn too many
TurnsLeft_OffByOne(turns) == turns <= MaxTurns

\* while (turns < 5), evaluated on the counter after turns++
TurnsLeft(turns) == turns < MaxTurns

\* a loop that awaits the registered tools of a batch first and answers the
\* unknown ones afterwards
Advance_RegisteredFirst(log, calls, turns, out) ==
    LET reg == SelectSeq(calls, LAMBDA c : c.name \in agentTools)
        unk == SelectSeq(calls, LAMBDA c : c.name \notin agentTools)
        log2 == log \o [k \in 1..Len(unk) |-> UnavailableToolMessage(unk[k])]
    IN  IF reg # <<>>
        THEN [log |-> log, pc |-> "tool", calls |-> reg \o unk, turns |-> turns,
              result |-> ResultUndefined]
        ELSE IF HasFinalMarker(out)
             THEN [log |-> log2, pc |-> "return", calls |-> <<>>, turns |-> turns,
                   result |-> ResultText(ParseTable[out])]
             ELSE IF TurnsLeft(turns + 1)
                  THEN [log |-> log2, pc |-> "llm", calls |-> <<>>, turns |-> turns + 1,
                        result |-> ResultUndefined]
                  ELSE [log |-> log2, pc |-> "return", calls |-> <<>>,
                        turns |-> turns + 1, result |-> ResultUndefined]

\* handleContext from the point where the tool call calls[1] is next:
\* unknown tools get their placeholder at once, a registered tool is awaited,
\* and after the batch the marker check and the turn counter decide
RECURSIVE Advance(_, _, _, _)
Advance(log, calls, turns, out) ==
    IF calls # <<>>
    THEN IF Head(calls).name \in agentTools
         THEN [log |-> log, pc |-> "tool", calls |-> calls, turns |-> turns,
               result |-> ResultUndefined]
         ELSE Advance(Append(log, UnavailableToolMessage(Head(calls))),
                      Tail(calls), turns, out)
    ELSE IF HasFinalMarker(out)
         THEN [log |-> log, pc |-> "return", calls |-> <<>>, turns |-> turns,
               result |-> ResultText(ParseTable[out])]
         ELSE IF TurnsLeft(turns + 1)
              THEN [log |-> log, pc |-> "llm", calls |-> <<>>, turns |-> turns + 1,
                    result |-> ResultUndefined]
              ELSE [log |-> log, pc |-> "return", calls |-> <<>>, turns |-> turns + 1,
                    result |-> ResultUndefined]

\* handleContext returns at once with the given result
ReturnNow(log, turns, result) ==
    [log |-> log, pc |-> "return", calls |-> <<>>, turns |-> turns, result |-> result]

(***************************************************************************)
(* processQuery                                                            *)
(***************************************************************************)
\* a reset that releases the lock at once and still arms the delayed release
resetListeningState_ReleasesTwice(delayMs) ==
    LET ts == clearTimeout(clearTimeout(timers, timeoutId), maxListeningTimeoutId) IN
    /\ transcriptionStartTime' = 0
    /\ timeoutId' = NoTimer
    /\ maxListeningTimeoutId' = NoTimer
    /\ isListeningToQuery' = FALSE
    /\ isProcessingQuery' = FALSE
    /\ timers' = IF delayMs > 0
                 THEN ts \cup {Timer(FreshId(ts, "grace", {}), "grace", delayMs)}
                 ELSE ts

\* a reset that releases the lock at once, whatever the delay
resetListeningState_NoGrace(delayMs) ==
    /\ transcriptionStartTime' = 0
    /\ timeoutId' = NoTimer
    /\ maxListeningTimeoutId' = NoTimer
    /\ isListeningToQuery' = FALSE
    /\ timers' = clearTimeout(clearTimeout(timers, timeoutId), maxListeningTimeoutId)
    /\ isProcessingQuery' = FALSE

\* a reset that leaves the hard-cutoff timer armed
resetListeningState_KeepsCutoff(delayMs) ==
    LET ts == clearTimeout(timers, timeoutId) IN
    /\ transcriptionStartTime' = 0
    /\ timeoutId' = NoTimer
    /\ UNCHANGED maxListeningTimeoutId
    /\ isListeningToQuery' = FALSE
    /\ IF delayMs > 0
       THEN /\ timers' = ts \cup {Timer(FreshId(ts, "grace", {}), "grace", delayMs)}
            /\ UNCHANGED isProcessingQuery
       ELSE /\ timers' = ts
            /\ isProcessingQuery' = FALSE

\* resetListeningState(delayMs)
resetListeningState(delayMs) ==
    LET ts == clearTimeout(clearTimeout(timers, timeoutId), maxListeningTimeoutId) IN
    /\ transcriptionStartTime' = 0
    /\ timeoutId' = NoTimer
    /\ maxListeningTimeoutId' = NoTimer
    /\ isListeningToQuery' = FALSE
    /\ IF delayMs > 0
       THEN /\ timers' = ts \cup {Timer(FreshId(ts, "grace", {}), "grace", delayMs)}
            /\ UNCHANGED isProcessingQuery
       ELSE /\ timers' = ts
            /\ isProcessingQuery' = FALSE

\* the query processQuery derives from the fetched segments
QueryOf(segments) == QueryTable[segments][isWakeWordRequired]

\* the "Processing query" feedback, then inputData up to `await this.getPhoto()`;
\* trigger is proactiveMetadata.trigger
StartProcessing(i, trigger) ==
    /\ emit' = (IF settings.speak THEN <<PlayAudio("popping.mp3")>> ELSE <<>>)
               \o <<Show(<<"Processing query">>)>>
    /\ inv' = [inv EXCEPT ![i] =
                 [@ EXCEPT !.pc = "photo",
                           !.photo = IF activePhoto = NoPhoto THEN "null"
                                     ELSE IF activePhoto.data THEN "data" ELSE "wait",
                           !.req = activePhoto.req,
                           !.trigger = trigger,
                           !.anim = TRUE,
                           !.plays = IF settings.speak /\ settings.audioSettles
                                     THEN 1 ELSE 0]]

\* a lock check that never finds the lock taken
LockIsHeld_NeverSeen == FALSE

\* the lock check of processQuery: if (this.isProcessingQuery) return
LockIsHeld == isProcessingQuery

\* a processQuery without the empty-query rule: a blank query is processed
\* like any other
FetchDone_BlankQueryProceeds(outcome) ==
    /\ lastOp' = "FetchDone"
    /\ fetching > 0
    /\ fetching' = fetching - 1
    /\ IF outcome.kind # "ok"
       THEN /\ emit' = <<Show(IF outcome.kind = "noSegments"
                              THEN <<"Sorry, the transcript format was invalid. Please try again.">>
                              ELSE <<"Sorry, there was an error retrieving your transcript. Please try again.">>)>>
            /\ UNCHANGED <<ctrlVars, inv>>
       ELSE IF LockIsHeld
       THEN /\ emit' = <<>>
            /\ UNCHANGED <<ctrlVars, inv>>
       ELSE /\ HasFreeSlot
            /\ Len(messages) <= MaxLogAtCall
            /\ isProcessingQuery' = TRUE
            /\ UNCHANGED <<isListeningToQuery, transcriptionStartTime, timeoutId,
                           maxListeningTimeoutId, timers>>
            /\ IF isWakeWordRequired
               THEN StartProcessing(NextFreeSlot, <<"direct_invocation">>)
               ELSE /\ emit' = <<>>
                    /\ inv' = [inv EXCEPT ![NextFreeSlot].pc = "gate"]
    /\ window' = WindowAfter(FALSE, emit' = <<Show(<<"No query provided.">>)>>)
    /\ UNCHANGED <<photoVars, messages, lastResult, lastLlmCalls, agentTools, settings,
                   headVars, locationContext,
                   notificationsPerUser, latestNotifications,
                   wsReadyState, orphanSounds>>

\* processQuery resumes after the transcript fetch
FetchDone(outcome) ==
    /\ lastOp' = "FetchDone"
    /\ fetching > 0
    /\ fetching' = fetching - 1
    /\ IF outcome.kind # "ok"
       THEN \* the fetch threw, or the body has no segments array
            /\ emit' = <<Show(IF outcome.kind = "noSegments"
                              THEN <<"Sorry, the transcript format was invalid. Please try again.">>
                              ELSE <<"Sorry, there was an error retrieving your transcript. Please try again.">>)>>
            /\ UNCHANGED <<ctrlVars, inv>>
       ELSE IF LockIsHeld
       THEN /\ emit' = <<>>
            /\ UNCHANGED <<ctrlVars, inv>>
       ELSE IF Trim(QueryOf(outcome.segments)) = <<>>
       THEN \* empty query: notice in wake-word mode, resetListeningState(0)
            /\ emit' = IF isWakeWordRequired
                       THEN <<Show(<<"No query provided.">>)>>
                       ELSE <<>>
            /\ resetListeningState(0)
            /\ UNCHANGED inv
       ELSE /\ HasFreeSlot
            /\ Len(messages) <= MaxLogAtCall
            /\ isProcessingQuery' = TRUE
            /\ UNCHANGED <<isListeningToQuery, transcriptionStartTime, timeoutId,
                           maxListeningTimeoutId, timers>>
            /\ IF isWakeWordRequired
               THEN StartProcessing(NextFreeSlot, <<"direct_invocation">>)
               ELSE /\ emit' = <<>>
                    /\ inv' = [inv EXCEPT ![NextFreeSlot].pc = "gate"]
    /\ window' = WindowAfter(FALSE, emit' = <<Show(<<"No query provided.">>)>>)
    /\ UNCHANGED <<photoVars, messages, lastResult, lastLlmCalls, agentTools, settings,
                   headVars, locationContext,
                   notificationsPerUser, latestNotifications,
                   wsReadyState, orphanSounds>>

\* fallbackDecision of shouldRespondToAmbientSpeech; confidence is counted in
\* hundredths
fallbackDecision ==
    [shouldRespond |-> TRUE, trigger |-> <<"fallback">>,
     reason |-> <<"Fallback allowance to avoid missing potential requests.">>,
     confidence |-> 0]

\* what the classifier call yields: it throws, its text is not JSON, its JSON
\* is null (reading a property throws), or an object whose fields are:
\* should (parsed.should_respond ?? parsed.shouldRespond ?? parsed.respond) a
\* boolean, a string or something else; trigger and reason a string or not;
\* confidence a number, a string (n, finite: what parseFloat makes of it) or
\* something else. The objects exercised differ in at most one field from the
\* object without any of the fields.
GateOutcomes ==
    LET noShould == [t |-> "other", b |-> FALSE, s |-> <<>>]
        noString == [isString |-> FALSE, s |-> <<>>]
        noConfidence == [t |-> "other", n |-> 0, finite |-> TRUE]
        result(k, should, trigger, reason, confidence) ==
            [kind |-> k, should |-> should, trigger |-> trigger, reason |-> reason,
             confidence |-> confidence]
    IN  {result(k, noShould, noString, noString, noConfidence) :
            k \in {"throw", "notJson", "jsonNull", "json"}}
        \cup {result("json", x, noString, noString, noConfidence) :
                x \in [t : {"boolean"}, b : BOOLEAN, s : {<<>>}]
                      \cup [t : {"string"}, b : {FALSE},
                            s : {<<"T","R","U","E">>, <<"n","o">>}]}
        \cup {result("json", noShould, x, noString, noConfidence) :
                x \in [isString : {TRUE},
                       s : {<<" ">>, <<"safety">>, <<" ", "weather", " ">>}]}
        \cup {result("json", noShould, noString, x, noConfidence) :
                x \in [isString : {TRUE}, s : {<<"asked a question">>}]}
        \cup {result("json", noShould, noString, noString, x) :
                x \in [t : {"number"}, n : {0 - 50, 70, 250}, finite : {TRUE}]
                      \cup [t : {"number", "string"}, n : {0}, finite : {FALSE}]
                      \cup [t : {"string"}, n : {90}, finite : {TRUE}]}

\* the decision shouldRespondToAmbientSpeech returns
shouldRespondToAmbientSpeech(o) ==
    IF o.kind # "json" THEN fallbackDecision
    ELSE [shouldRespond |->
              IF o.should.t = "boolean" THEN o.should.b
              ELSE IF o.should.t = "string"
                   THEN toLowerCase(o.should.s) = <<"t","r","u","e">>
                   ELSE fallbackDecision.shouldRespond,
          trigger |->
              IF o.trigger.isString /\ Len(Trim(o.trigger.s)) > 0
              THEN Trim(o.trigger.s)
              ELSE fallbackDecision.trigger,
          reason |->
              IF o.reason.isString /\ Len(Trim(o.reason.s)) > 0
              THEN Trim(o.reason.s)
              ELSE fallbackDecision.reason,
          confidence |->
              LET parsed == IF o.confidence.t \in {"number", "string"}
                            THEN o.confidence
                            ELSE [t |-> "number", n |-> fallbackDecision.confidence,
                                  finite |-> TRUE]
                  atMostOne == IF parsed.n < 100 THEN parsed.n ELSE 100
              IN  IF parsed.finite
                  THEN (IF atMostOne > 0 THEN atMostOne ELSE 0)
                  ELSE fallbackDecision.confidence]

\* shouldRespondToAmbientSpeech tabulated over the classifier outcomes
DecisionTable == [o \in GateOutcomes |-> shouldRespondToAmbientSpeech(o)]

\* a processQuery that asks the gate and then responds whatever it decided
GateDone_NeverSuppresses(i, o) ==
    /\ lastOp' = "GateDone"
    /\ inv[i].pc = "gate"
    /\ StartProcessing(i, DecisionTable[o].trigger)
    /\ UNCHANGED ctrlVars
    /\ UNCHANGED <<fetching, photoVars, agentVars, agentTools, settings,
                   headVars, locationContext, window,
                   notificationsPerUser, latestNotifications,
                   wsReadyState, orphanSounds>>

\* a gate that fails closed: without a usable decision it does not respond
GateDone_FailsClosed(i, o) ==
    /\ lastOp' = "GateDone"
    /\ inv[i].pc = "gate"
    /\ IF o.kind = "json" /\ DecisionTable[o].shouldRespond
       THEN /\ StartProcessing(i, DecisionTable[o].trigger)
            /\ UNCHANGED ctrlVars
       ELSE /\ emit' = <<>>
            /\ resetListeningState(0)
            /\ inv' = [inv EXCEPT ![i] = FreeSlot]
    /\ UNCHANGED <<fetching, photoVars, agentVars, agentTools, settings,
                   headVars, locationContext, window,
                   notificationsPerUser, latestNotifications,
                   wsReadyState, orphanSounds>>

\* processQuery resumes after shouldRespondToAmbientSpeech, whose classifier
\* call yielded o
GateDone(i, o) ==
    /\ lastOp' = "GateDone"
    /\ inv[i].pc = "gate"
    /\ IF DecisionTable[o].shouldRespond
       THEN /\ StartProcessing(i, DecisionTable[o].trigger)
            /\ UNCHANGED ctrlVars
       ELSE /\ emit' = <<>>
            /\ resetListeningState(0)
            /\ inv' = [inv EXCEPT ![i] = FreeSlot]
    /\ UNCHANGED <<fetching, photoVars, agentVars, agentTools, settings,
                   headVars, locationContext, window,
                   notificationsPerUser, latestNotifications,
                   wsReadyState, orphanSounds>>

\* a dispatcher without the handoff branch: the sentinel is rendered as text
Dispatch_HandoffRendered(r) ==
    IF r.kind = "undefined" \/ (r.kind = "text" /\ r.text = <<>>)
    THEN showOrSpeakText(<<"Sorry, I couldn't find an answer to that.">>)
    ELSE IF r.kind = "handoff" THEN showOrSpeakText(<<"GIVE_APP_CONTROL">>)
    ELSE showOrSpeakText(r.text)

\* what the dispatcher renders for the loop's outcome
Dispatch(r) ==
    IF r.kind = "undefined" \/ (r.kind = "text" /\ r.text = <<>>)
    THEN showOrSpeakText(<<"Sorry, I couldn't find an answer to that.">>)
    ELSE IF r.kind = "handoff" THEN <<>>
    ELSE showOrSpeakText(r.text)

\* anim.stop(): clears the display when the socket to the glasses is open
AnimStop == IF wsReadyState = 1 THEN <<Show(<<>>)>> ELSE <<>>

\* the sound chains left running once an invocation ends in the catch block
\* of processQuery, which leaves isRunning true: a chain whose last play is
\* awaited goes on without its invocation (beyond MaxOrphanSounds chains, the
\* promise of a further one never resolves)
OrphansAfter(i) ==
    IF /\ inv[i].plays \in 1..4
       /\ orphanSounds[1] + orphanSounds[2] + orphanSounds[3] + orphanSounds[4]
             < MaxOrphanSounds
    THEN [orphanSounds EXCEPT ![inv[i].plays] = @ + 1]
    ELSE orphanSounds

\* an invocation moves on inside handleContext, or handleContext returns and
\* its caller runs to completion (for processQuery: dispatcher and finally)
Continue(i, st, out) ==
    /\ messages' = st.log
    /\ IF st.pc = "return"
       THEN /\ lastResult' = st.result
            /\ lastLlmCalls' = inv[i].llmCalls
            /\ inv' = [inv EXCEPT ![i] = FreeSlot]
            /\ IF inv[i].direct
               THEN /\ emit' = <<>>
                    /\ UNCHANGED ctrlVars
               ELSE /\ emit' = AnimStop \o Dispatch(st.result)
                    /\ resetListeningState(GraceMs)
       ELSE /\ inv' = [inv EXCEPT ![i] =
                         [@ EXCEPT !.pc = st.pc, !.calls = st.calls,
                                   !.turns = st.turns, !.out = out,
                                   !.llmCalls = IF st.pc = "llm" THEN @ + 1 ELSE @]]
            /\ emit' = <<>>
            /\ UNCHANGED <<lastResult, lastLlmCalls, ctrlVars>>
    /\ window' = WindowAfter(FALSE, Len(emit') > Len(AnimStop))
    /\ UNCHANGED <<fetching, photoVars, agentTools, settings,
                   headVars, locationContext,
                   notificationsPerUser, latestNotifications,
                   wsReadyState, orphanSounds>>

\* processQuery resumes after getPhoto(): a rejected photo promise lands in the
\* catch block, otherwise handleContext runs up to its first llm.invoke
PhotoDone(i) ==
    /\ lastOp' = "PhotoDone"
    /\ inv[i].pc = "photo"
    /\ IF inv[i].photo = "reject"
       THEN /\ emit' = AnimStop \o
                  showOrSpeakText(<<"Sorry, there was an error processing your request.">>)
            /\ resetListeningState(GraceMs)
            /\ inv' = [inv EXCEPT ![i] = FreeSlot]
            /\ orphanSounds' = OrphansAfter(i)
            /\ UNCHANGED agentVars
       ELSE /\ messages' = messages \o <<SystemMessage, HumanMessage>>
            /\ inv' = [inv EXCEPT ![i] = [@ EXCEPT !.pc = "llm", !.turns = 0,
                                                  !.llmCalls = 1]]
            /\ emit' = <<>>
            /\ UNCHANGED <<ctrlVars, lastResult, lastLlmCalls, orphanSounds>>
    /\ window' = WindowAfter(FALSE, inv[i].photo = "reject")
    /\ UNCHANGED <<fetching, photoVars, agentTools, settings,
                   headVars, locationContext,
                   notificationsPerUser, latestNotifications,
                   wsReadyState>>

\* the interval callback of Anim.start fires while the animation is not
\* stopped: it shows the next frame when the socket is open, and otherwise
\* stops the animation, whose stop() then finds no open socket to clear
AnimFrame(i) ==
    /\ lastOp' = "AnimFrame"
    /\ inv[i].anim
    /\ IF wsReadyState = 1
       THEN /\ emit' = <<Show(<<"frame", "Processing query">>)>>
            /\ UNCHANGED inv
       ELSE /\ emit' = <<>>
            /\ inv' = [inv EXCEPT ![i].anim = FALSE]
    /\ UNCHANGED <<ctrlVars, fetching, photoVars, agentVars, agentTools, settings,
                   headVars, locationContext, window,
                   notificationsPerUser, latestNotifications,
                   wsReadyState, orphanSounds>>

\* the promise of a processing sound resolves while isRunning is true: the
\* .then callback plays the sound again, up to five plays for one query
ProcessingSoundDone(i) ==
    /\ lastOp' = "ProcessingSoundDone"
    /\ inv[i].plays \in 1..4
    /\ emit' = <<PlayAudio("popping.mp3")>>
    /\ inv' = [inv EXCEPT ![i].plays = @ + 1]
    /\ UNCHANGED <<ctrlVars, fetching, photoVars, agentVars, agentTools, settings,
                   headVars, locationContext, window,
                   notificationsPerUser, latestNotifications,
                   wsReadyState, orphanSounds>>

\* the same callback of a chain that outlived its invocation, k plays made
OrphanSoundDone(k) ==
    /\ lastOp' = "OrphanSoundDone"
    /\ orphanSounds[k] > 0
    /\ emit' = <<PlayAudio("popping.mp3")>>
    /\ orphanSounds' = [j \in 1..4 |->
                           IF j = k THEN orphanSounds[j] - 1
                           ELSE IF j = k + 1 THEN orphanSounds[j] + 1
                           ELSE orphanSounds[j]]
    /\ UNCHANGED <<ctrlVars, fetching, inv, photoVars, agentVars, agentTools, settings,
                   headVars, locationContext, window,
                   notificationsPerUser, latestNotifications,
                   wsReadyState>>

\* the socket to the glasses changes state (it connects, closes, reconnects)
SocketState(s) ==
    /\ lastOp' = "SocketState"
    /\ s # wsReadyState
    /\ wsReadyState' = s
    /\ emit' = <<>>
    /\ UNCHANGED <<ctrlVars, fetching, inv, photoVars, agentVars, agentTools, settings,
                   headVars, locationContext, window,
                   notificationsPerUser, latestNotifications,
                   orphanSounds>>

(***************************************************************************)
(* handleContext                                                           *)
(***************************************************************************)
\* llm.invoke returns an AIMessage with text out and tool calls named names
LLMReturn(i, out, names) ==
    /\ lastOp' = "LLMReturn"
    /\ inv[i].pc = "llm"
    /\ LET calls == MakeCalls(messages, names)
           log1 == Append(messages, AIMessage(out, calls))
       IN  Continue(i, Advance(log1, calls, inv[i].turns, out), out)

\* String(err) of what llm.invoke may throw: without the "LLM output:" token,
\* with one line of output after it, with nothing after it, with output of
\* two lines, with a line break before the output, and with the token twice
Err_Plain == <<"Error: request timed out">>
Err_LLMOutput == <<"Error: Could not parse ", "LLM output:", " ", "raw", " ", "text">>
ErrorStrings == {Err_Plain, Err_LLMOutput,
                 <<"Error: Could not parse ", "LLM output:", " ">>,
                 <<"Error: Could not parse ", "LLM output:", " ", "raw", "\n", "text">>,
                 <<"Error: Could not parse ", "LLM output:", "\r", "\n", "raw">>,
                 <<"Error: ", "LLM output:", " ", "raw", "\n", "LLM output:", " ", "text">>}

\* errString.match(/LLM output:\s*(.*)$/)?.[1], <<>> when there is no match:
\* the expression has no flag, so "." stops at a line terminator and "$" is
\* the end of the input; after the token the greedy \s* takes all the
\* white space, line terminators included, and the rest must run to the end
\* without a line terminator, or the search moves on to a later token
RECURSIVE LLMOutputOf(_, _)
LLMOutputOf(errString, p) ==
    IF p > Len(errString) THEN <<>>
    ELSE LET rest == TrimLeft(SubSeq(errString, p + 1, Len(errString)))
         IN  IF /\ errString[p] = "LLM output:"
                /\ \A k \in 1..Len(rest) : ~IsLineTerminator(rest[k])
             THEN rest
             ELSE LLMOutputOf(errString, p + 1)

\* what the catch block of handleContext returns:
\* errString.match(...)?.[1] || "Error processing query."
CaughtResult(errString) ==
    IF LLMOutputOf(errString, 1) = <<>>
    THEN ResultText(ErrorText)
    ELSE ResultText(LLMOutputOf(errString, 1))

\* llm.invoke throws: the catch block of handleContext returns a string
LLMThrow(i, errString) ==
    /\ lastOp' = "LLMThrow"
    /\ inv[i].pc = "llm"
    /\ Continue(i, ReturnNow(messages, inv[i].turns, CaughtResult(errString)), inv[i].out)

\* a tool loop that treats the handoff sentinel as ordinary tool output
ToolReturn_HandoffIsContent(i, outcome) ==
    /\ lastOp' = "ToolReturn"
    /\ inv[i].pc = "tool"
    /\ LET call == Head(inv[i].calls)
           content == IF outcome = "handoff" THEN <<"GIVE_APP_CONTROL">>
                      ELSE NormalizeContent(ToolContent(outcome))
           log1 == Append(messages, ToolMessage(call, content))
       IN  IF IsTimerEvent(call, content)
           THEN Continue(i, ReturnNow(log1, inv[i].turns, ResultText(content)), inv[i].out)
           ELSE Continue(i, Advance(log1, Tail(inv[i].calls), inv[i].turns, inv[i].out),
                         inv[i].out)

\* a tool loop without the inner try/catch: a throwing tool lands in the
\* outer catch block, which returns the generic error string
ToolReturn_ThrowEscapes(i, outcome) ==
    /\ lastOp' = "ToolReturn"
    /\ inv[i].pc = "tool"
    /\ LET call == Head(inv[i].calls)
           content == NormalizeContent(ToolContent(outcome))
           log1 == Append(messages, ToolMessage(call, content))
       IN  IF outcome = "handoff"
           THEN Continue(i, ReturnNow(messages, inv[i].turns, ResultHandoff), inv[i].out)
           ELSE IF outcome = "throw"
           THEN Continue(i, ReturnNow(messages, inv[i].turns, ResultText(ErrorText)),
                         inv[i].out)
           ELSE IF IsTimerEvent(call, content)
           THEN Continue(i, ReturnNow(log1, inv[i].turns, ResultText(content)), inv[i].out)
           ELSE Continue(i, Advance(log1, Tail(inv[i].calls), inv[i].turns, inv[i].out),
                         inv[i].out)

\* selectedTool.invoke settles for the call at the head of the batch
ToolReturn(i, outcome) ==
    /\ lastOp' = "ToolReturn"
    /\ inv[i].pc = "tool"
    /\ LET call == Head(inv[i].calls)
           content == NormalizeContent(ToolContent(outcome))
           log1 == Append(messages, ToolMessage(call, content))
       IN  IF outcome = "handoff"
           THEN Continue(i, ReturnNow(messages, inv[i].turns, ResultHandoff), inv[i].out)
           ELSE IF IsTimerEvent(call, content)
           THEN Continue(i, ReturnNow(log1, inv[i].turns, ResultText(content)), inv[i].out)
           ELSE Continue(i, Advance(log1, Tail(inv[i].calls), inv[i].turns, inv[i].out),
                         inv[i].out)

\* handleContext(userContext) called directly, up to its first await
CallHandleContext(blank, withPhoto) ==
    /\ lastOp' = "CallHandleContext"
    /\ \A i \in Slots : inv[i].pc = "free"
    /\ Len(messages) <= MaxLogAtCall
    /\ emit' = <<>>
    /\ IF blank
       THEN /\ lastResult' = ResultNoQuery
            /\ lastLlmCalls' = 0
            /\ UNCHANGED <<messages, inv>>
       ELSE /\ messages' = messages \o <<SystemMessage, HumanMessage>>
            /\ inv' = [inv EXCEPT ![1] =
                         [FreeSlot EXCEPT !.pc = "llm", !.direct = TRUE, !.llmCalls = 1,
                                          !.photo = IF withPhoto THEN "data" ELSE "null"]]
            /\ UNCHANGED <<lastResult, lastLlmCalls>>
    /\ UNCHANGED <<ctrlVars, fetching, photoVars, agentTools, settings,
                   headVars, locationContext, window,
                   notificationsPerUser, latestNotifications,
                   wsReadyState, orphanSounds>>

(***************************************************************************)
(* Head position and teardown                                              *)
(***************************************************************************)
\* the position handleHeadPosition derives from an event; "none" when the
\* event carries no position string
HeadPositions == {"none", "down", "up"}

\* handleHeadPosition(headPositionData); the server delivers head events only
\* to a manager that is still in its session map
handleHeadPosition(current) ==
    /\ lastOp' = "handleHeadPosition"
    /\ ~stopped
    /\ emit' = <<>>
    /\ IF current = "none"
       THEN UNCHANGED <<lastHeadPosition, headWakeWindowUntilMs, headWindowTimeoutId,
                        timers>>
       ELSE /\ lastHeadPosition' = current
            /\ IF /\ settings.wakeRequiresHeadUp
                  /\ lastHeadPosition = "down"
                  /\ current = "up"
               THEN LET ts == clearTimeout(timers, headWindowTimeoutId)
                        id == FreshId(ts, "headWindow", {})
                    IN  /\ headWakeWindowUntilMs' = NowStamp + HeadWindowMs
                        /\ timers' = ts \cup {Timer(id, "headWindow", HeadWindowMs)}
                        /\ headWindowTimeoutId' = <<"headWindow", id>>
               ELSE UNCHANGED <<headWakeWindowUntilMs, headWindowTimeoutId, timers>>
    /\ UNCHANGED <<isProcessingQuery, isListeningToQuery, transcriptionStartTime,
                   timeoutId, maxListeningTimeoutId, fetching, inv, photoVars,
                   agentVars, agentTools, settings, stopped, locationContext, window,
                   notificationsPerUser, latestNotifications,
                   wsReadyState, orphanSounds>>

\* the head-up window callback: closes the window and forgets its handle
HeadWindowFire(t) ==
    /\ lastOp' = "HeadWindowFire"
    /\ t \in PendingOf("headWindow")
    /\ timers' = timers \ {t}
    /\ headWakeWindowUntilMs' = 0
    /\ headWindowTimeoutId' = NoTimer
    /\ emit' = <<>>
    /\ UNCHANGED <<isProcessingQuery, isListeningToQuery, transcriptionStartTime,
                   timeoutId, maxListeningTimeoutId, fetching, inv, photoVars,
                   agentVars, agentTools, settings, lastHeadPosition, stopped,
                   locationContext, window,
                   notificationsPerUser, latestNotifications,
                   wsReadyState, orphanSounds>>

\* onStop: manager.cleanup(), then the manager leaves the session map
cleanup ==
    /\ lastOp' = "cleanup"
    /\ ~stopped
    /\ stopped' = TRUE
    /\ timers' = clearTimeout(clearTimeout(timers, timeoutId), maxListeningTimeoutId)
    /\ emit' = <<>>
    /\ UNCHANGED <<isProcessingQuery, isListeningToQuery, transcriptionStartTime,
                   timeoutId, maxListeningTimeoutId, fetching, inv, photoVars,
                   agentVars, agentTools, settings, lastHeadPosition,
                   headWakeWindowUntilMs, headWindowTimeoutId, locationContext, window,
                   notificationsPerUser, latestNotifications,
                   wsReadyState, orphanSounds>>

(***************************************************************************)
(* Location context                                                        *)
(***************************************************************************)
\* a value read from a JSON body or an argument object: ok says whether its
\* typeof is the one the field expects, v is the value when it is
WellTyped(v) == [ok |-> TRUE, v |-> v]
IllTyped(d) == [ok |-> FALSE, v |-> d]

\* const isStringUnknown = (val) => val === 'Unknown': the predicate, given
\* as the set of the values it holds of
isStringUnknown == {"Unknown"}

\* const isNumberUnknown = (val) => val === 0
isNumberUnknown == {0}

\* preserveKnownValue(newValue, currentValue, defaultValue, isUnknown);
\* this.locationContext is never undefined, its field initialiser sets it
preserveKnownValue(newValue, currentValue, defaultValue, isUnknown) ==
    LET safeNewValue == IF newValue.ok THEN newValue.v ELSE defaultValue IN
    IF safeNewValue \notin isUnknown THEN safeNewValue
    ELSE IF safeNewValue \in isUnknown /\ currentValue \notin isUnknown
         THEN currentValue
    ELSE safeNewValue

\* updateLocationContext(locationInfo): the context stored afterwards
updateLocationContext(ctx, locationInfo) ==
    [city |-> preserveKnownValue(locationInfo.city, ctx.city, "Unknown", isStringUnknown),
     state |-> preserveKnownValue(locationInfo.state, ctx.state, "Unknown", isStringUnknown),
     country |-> preserveKnownValue(locationInfo.country, ctx.country, "Unknown",
                                    isStringUnknown),
     timezone |->
        [name |-> preserveKnownValue(locationInfo.timezone.name, ctx.timezone.name,
                                     "Unknown", isStringUnknown),
         shortName |-> preserveKnownValue(locationInfo.timezone.shortName,
                                          ctx.timezone.shortName, "Unknown",
                                          isStringUnknown),
         fullName |-> preserveKnownValue(locationInfo.timezone.fullName,
                                         ctx.timezone.fullName, "Unknown",
                                         isStringUnknown),
         offsetSec |-> preserveKnownValue(locationInfo.timezone.offsetSec,
                                          ctx.timezone.offsetSec, 0, isNumberUnknown),
         isDst |-> IF locationInfo.timezone.isDst.ok
                   THEN locationInfo.timezone.isDst.v
                   ELSE ctx.timezone.isDst]]

\* an argument object whose fields all have the expected type
TypedInfo(info) ==
    [city |-> WellTyped(info.city), state |-> WellTyped(info.state),
     country |-> WellTyped(info.country),
     timezone |-> [name |-> WellTyped(info.timezone.name),
                   shortName |-> WellTyped(info.timezone.shortName),
                   fullName |-> WellTyped(info.timezone.fullName),
                   offsetSec |-> WellTyped(info.timezone.offsetSec),
                   isDst |-> WellTyped(info.timezone.isDst)]]

\* a value of a JSON body that is missing or falsy
Absent == WellTyped("")

\* x || fallback for a string read from a JSON body
OrElse(x, fallback) == IF x = Absent THEN WellTyped(fallback) ELSE x

\* what the reverse-geocoding request yields: it fails (throws or is not ok),
\* its body has no address, or it has one with some of its parts
GeoOutcomes ==
    {[kind |-> "fail", city |-> Absent, state |-> Absent, country |-> Absent],
     [kind |-> "noAddress", city |-> Absent, state |-> Absent, country |-> Absent]}
    \cup [kind : {"address"},
          city : {Absent, WellTyped("Paris"), WellTyped("Lyon"), IllTyped("")},
          state : {Absent, WellTyped("Ile-de-France")},
          country : {Absent, WellTyped("France")}]

\* what the timezone request yields, likewise
TimezoneOutcomes ==
    {[kind |-> k, name |-> Absent, short_name |-> Absent, full_name |-> Absent,
      offset_sec |-> 0, now_in_dst |-> FALSE] : k \in {"fail", "noTimezone"}}
    \cup [kind : {"timezone"},
          name : {Absent, WellTyped("Europe/Paris"), WellTyped("Europe/London")},
          short_name : {Absent, WellTyped("CEST")},
          full_name : {Absent, WellTyped("Central European Summer Time")},
          offset_sec : {0, 7200},
          now_in_dst : BOOLEAN]

\* the locationInfo handleLocation hands to updateLocationContext
LocationInfoOf(geo, tz) ==
    LET fb == TypedInfo(fallbackLocationContext)
        g == IF geo.kind = "address"
             THEN [fb EXCEPT !.city = OrElse(geo.city, "Unknown city"),
                             !.state = OrElse(geo.state, "Unknown state"),
                             !.country = OrElse(geo.country, "Unknown country")]
             ELSE fb
    IN  IF tz.kind = "timezone"
        THEN [g EXCEPT !.timezone =
                 [name |-> OrElse(tz.name, "Unknown"),
                  shortName |-> OrElse(tz.short_name, "Unknown"),
                  fullName |-> OrElse(tz.full_name, "Unknown"),
                  offsetSec |-> WellTyped(tz.offset_sec),
                  isDst |-> WellTyped(tz.now_in_dst)]]
        ELSE g

\* handleLocation(locationData): the calls of a session touch the stored
\* context only in their final updateLocationContext, so each call is one step
handleLocation(valid, geo, tz) ==
    /\ lastOp' = "handleLocation"
    /\ locationContext' =
          IF valid
          THEN updateLocationContext(locationContext, LocationInfoOf(geo, tz))
          ELSE updateLocationContext(locationContext, TypedInfo(fallbackLocationContext))
    /\ emit' = <<>>
    /\ UNCHANGED <<ctrlVars, fetching, inv, photoVars, agentVars, agentTools, settings,
                   headVars, window,
                   notificationsPerUser, latestNotifications,
                   wsReadyState, orphanSounds>>

(***************************************************************************)
(* Specifications                                                          *)
(***************************************************************************)
\* model responses and tool outcomes exercised together with the controller
CtrlOutputs == {OutFinal}
CtrlBatches == {<<>>}
CtrlGateOutcomes ==
    {o \in GateOutcomes :
        /\ o.kind \in {"throw", "json"}
        /\ o.should.t \in {"boolean", "other"}
        /\ ~o.trigger.isString /\ ~o.reason.isString /\ o.confidence.t = "other"}

Next ==
    \/ \E f \in Fragments, stale \in BOOLEAN, within \in BOOLEAN :
          handleTranscription(f, stale, within)
    \/ \E t \in timers : DebounceFire(t)
    \/ \E t \in timers : CutoffFire(t)
    \/ \E t \in timers : GraceFire(t)
    \/ \E t \in timers : PhotoTtlFire(t)
    \/ \E r \in photoReqs : PhotoResolve(r)
    \/ \E r \in photoReqs : PhotoReject(r)
    \/ \E o \in FetchOutcomes : FetchDone(o)
    \/ \E i \in Slots, o \in CtrlGateOutcomes : GateDone(i, o)
    \/ \E i \in Slots : PhotoDone(i)
    \/ \E i \in Slots : AnimFrame(i)
    \/ \E i \in Slots, out \in CtrlOutputs, names \in CtrlBatches : LLMReturn(i, out, names)
    \/ \E i \in Slots, e \in {Err_Plain} : LLMThrow(i, e)

\* a session whose wake_requires_head_up setting is off (unset): without head
\* position events the setting on only rejects every wake word; the promise
\* of a sound stays pending
CtrlInit ==
    Init /\ ~settings.wakeRequiresHeadUp /\ ~settings.audioSettles /\ ~window.on

Spec == CtrlInit /\ [][Next]_vars

\* the session from connection to teardown: head position events next to the
\* transcription events, and onStop, after which the glasses deliver no event
\* while timers and pending continuations still run
SessionNext ==
    \/ /\ ~stopped
       /\ \E f \in Fragments, stale \in BOOLEAN, within \in BOOLEAN :
             handleTranscription(f, stale, within)
    \/ \E current \in HeadPositions : handleHeadPosition(current)
    \/ \E t \in timers : HeadWindowFire(t)
    \/ cleanup
    \/ \E t \in timers : DebounceFire(t)
    \/ \E t \in timers : CutoffFire(t)
    \/ \E t \in timers : GraceFire(t)
    \/ \E t \in timers : PhotoTtlFire(t)
    \/ \E r \in photoReqs : PhotoResolve(r)
    \/ \E r \in photoReqs : PhotoReject(r)
    \/ \E o \in FetchOutcomes : FetchDone(o)
    \/ \E i \in Slots, o \in CtrlGateOutcomes : GateDone(i, o)
    \/ \E i \in Slots : PhotoDone(i)
    \/ \E i \in Slots : AnimFrame(i)
    \/ \E i \in Slots, out \in CtrlOutputs, names \in CtrlBatches : LLMReturn(i, out, names)
    \/ \E i \in Slots, e \in {Err_Plain} : LLMThrow(i, e)

\* a session of any settings whose sounds stay pending
SessionInit == Init /\ ~settings.audioSettles

SessionSpec == SessionInit /\ [][SessionNext]_vars

\* the controller under the scheduling the runtime provides: a pending grace
\* callback runs, and an invocation that holds the lock is resumed when the
\* call it awaits (ambient gate, photo race, model) settles
HolderResumes ==
    \E i \in Slots :
        \/ \E o \in CtrlGateOutcomes : GateDone(i, o)
        \/ PhotoDone(i)
        \/ \E out \in CtrlOutputs, names \in CtrlBatches : LLMReturn(i, out, names)

FairSpec == Spec /\ WF_vars(HolderResumes) /\ WF_vars(\E t \in timers : GraceFire(t))

\* the tool loop on its own: handleContext is called directly, one call after
\* the other on the persisted log, against every model response and tool outcome
AgentBatches == {<<>>, <<"Search_Engine">>, <<"Ghost", "Search_Engine">>,
                 <<"AppTool", "Search_Engine">>, <<"Timer", "Search_Engine">>}

\* what a registered tool of that name may yield in a turn
ToolOutcomesOf(name, turn) ==
    IF turn >= MaxRichTurns THEN {"text"}
    ELSE CASE name = "Timer" -> {"timerJson", "text"}
           [] name = "AppTool" -> {"handoff", "text"}
           [] OTHER -> {"text", "empty", "throw", "timerJson"}

DefaultSettings == [alwaysListening |-> FALSE, speak |-> FALSE, hasCamera |-> FALSE,
                    wakeRequiresHeadUp |-> FALSE, audioSettles |-> FALSE]

AgentInit == Init /\ settings = DefaultSettings /\ ~window.on

AgentNext ==
    \/ \E blank \in BOOLEAN, withPhoto \in BOOLEAN : CallHandleContext(blank, withPhoto)
    \/ UserToolsLoaded
    \/ \E i \in Slots, out \in ModelOutputs, names \in AgentBatches :
          /\ inv[i].turns >= MaxRichTurns => names = <<>>
          /\ LLMReturn(i, out, names)
    \/ \E i \in Slots, e \in ErrorStrings : LLMThrow(i, e)
    \/ \E i \in Slots, o \in ToolOutcomeKinds :
          /\ inv[i].pc = "tool"
          /\ o \in ToolOutcomesOf(Head(inv[i].calls).name, inv[i].turns)
          /\ ToolReturn(i, o)

AgentSpec == AgentInit /\ [][AgentNext]_vars

\* the controller of a session without camera whose model asks for tools: the
\* user tools get registered, and a registered tool may hand the session off
\* or set a timer
QueryNext ==
    \/ \E f \in Fragments, within \in BOOLEAN : handleTranscription(f, FALSE, within)
    \/ \E t \in timers : DebounceFire(t)
    \/ \E t \in timers : CutoffFire(t)
    \/ \E t \in timers : GraceFire(t)
    \/ \E o \in FetchOutcomes : FetchDone(o)
    \/ \E i \in Slots, o \in GateOutcomes : GateDone(i, o)
    \/ \E i \in Slots : PhotoDone(i)
    \/ \E i \in Slots : AnimFrame(i)
    \/ UserToolsLoaded
    \/ \E i \in Slots, out \in CtrlOutputs,
          names \in {<<>>, <<"AppTool", "Search_Engine">>, <<"Timer">>} :
          LLMReturn(i, out, names)
    \/ \E i \in Slots, e \in ErrorStrings : LLMThrow(i, e)
    \/ \E i \in Slots, o \in ToolOutcomeKinds :
          /\ inv[i].pc = "tool"
          /\ o \in ToolOutcomesOf(Head(inv[i].calls).name, inv[i].turns)
          /\ ToolReturn(i, o)

\* a session on glasses without a camera
QueryInit == Init /\ ~settings.hasCamera /\ ~settings.audioSettles /\ ~window.on

QuerySpec == QueryInit /\ [][QueryNext]_vars

\* the wake-word controller of a silent session without camera, with the head
\* position events of the glasses
HeadInit ==
    /\ Init
    /\ ~settings.alwaysListening /\ ~settings.speak /\ ~settings.hasCamera
    /\ ~settings.audioSettles
    /\ ~window.on

HeadNext ==
    \/ \E f \in Fragments, within \in BOOLEAN : handleTranscription(f, FALSE, within)
    \/ \E current \in HeadPositions : handleHeadPosition(current)
    \/ \E t \in timers : HeadWindowFire(t)
    \/ \E t \in timers : DebounceFire(t)
    \/ \E t \in timers : CutoffFire(t)
    \/ \E t \in timers : GraceFire(t)
    \/ \E o \in FetchOutcomes : FetchDone(o)
    \/ \E i \in Slots : PhotoDone(i)
    \/ \E i \in Slots, out \in CtrlOutputs, names \in CtrlBatches : LLMReturn(i, out, names)

HeadSpec == HeadInit /\ [][HeadNext]_vars

\* the location handler on its own, against every outcome of its two lookups
LocationNext ==
    \E valid \in BOOLEAN, geo \in GeoOutcomes, tz \in TimezoneOutcomes :
        handleLocation(valid, geo, tz)

LocationSpec == AgentInit /\ [][LocationNext]_vars

\* the photo cache on its own, from the state a camera session is in after
\* two accepted fragments more than 5 s apart: the first fragment started
\* listening and requested photo 1, the second found that entry stale,
\* deleted it and requested photo 2 while request 1 is still unsettled
PhotoInit ==
    /\ isProcessingQuery = FALSE
    /\ isListeningToQuery = TRUE
    /\ transcriptionStartTime = NowStamp
    /\ timeoutId = <<"debounce", 1>>
    /\ maxListeningTimeoutId = <<"cutoff", 1>>
    /\ timers = {Timer(1, "cutoff", HardCutoffMs), Timer(1, "debounce", DebounceNonFinal)}
    /\ fetching = 0
    /\ inv = [i \in Slots |-> FreeSlot]
    /\ activePhoto = [req |-> 2, data |-> FALSE]
    /\ photoReqs = {1, 2}
    /\ messages = <<>>
    /\ agentTools = BuiltinTools
    /\ lastResult = [kind |-> "unset", text |-> <<>>]
    /\ lastLlmCalls = 0
    /\ settings = [DefaultSettings EXCEPT !.hasCamera = TRUE]
    /\ lastHeadPosition = "null"
    /\ headWakeWindowUntilMs = 0
    /\ headWindowTimeoutId = NoTimer
    /\ stopped = FALSE
    /\ locationContext = fallbackLocationContext
    /\ window = [on |-> FALSE, started |-> 0, renders |-> 0]
    /\ notificationsPerUser = <<>>
    /\ latestNotifications = <<>>
    /\ wsReadyState = 1
    /\ orphanSounds = [k \in 1..4 |-> 0]
    /\ emit = <<Show(<<"Listening...">>)>>
    /\ lastOp = "handleTranscription"

PhotoNext ==
    \/ \E f \in Fragments, stale \in BOOLEAN : handleTranscription(f, stale, FALSE)
    \/ \E t \in timers : CutoffFire(t)
    \/ \E t \in timers : PhotoTtlFire(t)
    \/ \E r \in photoReqs : PhotoResolve(r)
    \/ \E r \in photoReqs : PhotoReject(r)

PhotoSpec == PhotoInit /\ [][PhotoNext]_vars

\* the output side of a speaking wake-word session with camera, from
\* connection to teardown: the sounds end while the query is processed, the
\* animation runs, and the socket to the glasses may leave the open state
OutputInit ==
    /\ Init
    /\ settings = [alwaysListening |-> FALSE, speak |-> TRUE, hasCamera |-> TRUE,
                   wakeRequiresHeadUp |-> FALSE, audioSettles |-> TRUE]
    /\ ~window.on

OutputNext ==
    \/ /\ ~stopped
       /\ \E f \in Fragments : handleTranscription(f, FALSE, FALSE)
    \/ cleanup
    \/ \E t \in timers : DebounceFire(t)
    \/ \E t \in timers : CutoffFire(t)
    \/ \E t \in timers : GraceFire(t)
    \/ \E t \in timers : PhotoTtlFire(t)
    \/ \E r \in photoReqs : PhotoResolve(r)
    \/ \E r \in photoReqs : PhotoReject(r)
    \/ \E o \in FetchOutcomes : FetchDone(o)
    \/ \E i \in Slots : PhotoDone(i)
    \/ \E i \in Slots : AnimFrame(i)
    \/ \E i \in Slots : ProcessingSoundDone(i)
    \/ \E k \in 1..4 : OrphanSoundDone(k)
    \/ \E s \in 0..3 : SocketState(s)
    \/ \E i \in Slots, out \in CtrlOutputs, names \in CtrlBatches : LLMReturn(i, out, names)

OutputSpec == OutputInit /\ [][OutputNext]_vars

(***************************************************************************)
(* NotificationsManager                                                    *)
(***************************************************************************)
\* addNotifications(userId, notifications): creates the user's array when it
\* is missing, then stores existing.concat(notifications)
addNotifications(userId, notifications) ==
    /\ lastOp' = "addNotifications"
    /\ LET existing == IF userId \in DOMAIN notificationsPerUser
                       THEN notificationsPerUser[userId] ELSE <<>>
       IN  /\ Len(existing) + Len(notifications) <= MaxNotifications
           /\ notificationsPerUser' =
                 [u \in DOMAIN notificationsPerUser \cup {userId} |->
                     IF u = userId THEN existing \o notifications
                     ELSE notificationsPerUser[u]]
    /\ emit' = <<>>
    /\ UNCHANGED <<ctrlVars, fetching, inv, photoVars, agentVars, agentTools,
                   settings, headVars, locationContext, window, latestNotifications,
                   wsReadyState, orphanSounds>>

\* getLatestNotifications(userId, count): all.slice(-count), where a start
\* below zero counts from the end and -0 is 0
getLatestNotifications(userId, count) ==
    /\ lastOp' = "getLatestNotifications"
    /\ LET all == IF userId \in DOMAIN notificationsPerUser
                  THEN notificationsPerUser[userId] ELSE <<>>
           start == 0 - count
           from == IF start < 0
                   THEN (IF Len(all) + start > 0 THEN Len(all) + start ELSE 0)
                   ELSE (IF start < Len(all) THEN start ELSE Len(all))
       IN  latestNotifications' = SubSeq(all, from + 1, Len(all))
    /\ emit' = <<>>
    /\ UNCHANGED <<ctrlVars, fetching, inv, photoVars, agentVars, agentTools,
                   settings, headVars, locationContext, window, notificationsPerUser,
                   wsReadyState, orphanSounds>>

\* clearNotifications(userId): notificationsPerUser.delete(userId)
clearNotifications(userId) ==
    /\ lastOp' = "clearNotifications"
    /\ notificationsPerUser' =
          [u \in DOMAIN notificationsPerUser \ {userId} |-> notificationsPerUser[u]]
    /\ emit' = <<>>
    /\ UNCHANGED <<ctrlVars, fetching, inv, photoVars, agentVars, agentTools,
                   settings, headVars, locationContext, window, latestNotifications,
                   wsReadyState, orphanSounds>>

\* the notification buffer on its own, used by two users
NotifyNext ==
    \/ \E userId \in {"u1", "u2"},
          notifications \in {<<>>, <<"n1">>, <<"n2">>, <<"n1", "n2">>} :
          addNotifications(userId, notifications)
    \/ \E userId \in {"u1", "u2"}, count \in 0..(MaxNotifications + 1) :
          getLatestNotifications(userId, count)
    \/ \E userId \in {"u1", "u2"} : clearNotifications(userId)

NotifySpec == AgentInit /\ [][NotifyNext]_vars

(***************************************************************************)
(* Properties of the session controller                                    *)
(***************************************************************************)
\* processQuery invocations that are past the lock check and have not yet
\* called resetListeningState
Holders == {i \in Slots : inv[i].pc # "free" /\ ~inv[i].direct}

\* debounce and hard-cutoff timers that are pending
ListeningTimers == PendingOf("debounce") \cup PendingOf("cutoff")

\* C1: at any time at most one processQuery invocation holds the processing
\* lock, so at most one handleContext call is executing for the session.
C1_SingleLockHolder == Cardinality(Holders) <= 1

\* while a holder is inside handleContext, another invocation came back from
\* its fetch, found the lock taken and returned without output
C1_Witness ==
    /\ \E i \in Holders : inv[i].pc = "llm"
    /\ lastOp = "FetchDone"
    /\ emit = <<>>

\* C2: while isProcessingQuery is true, handleTranscription with any fragment
\* changes nothing: listening flag, start time, both timer handles, the pending
\* timers and the photo cache stay as they are, and nothing is shown or played.
C2_FragmentDroppedWhileProcessing ==
    [][(isProcessingQuery /\ lastOp' = "handleTranscription") =>
          /\ UNCHANGED <<isProcessingQuery, isListeningToQuery, transcriptionStartTime,
                         timeoutId, maxListeningTimeoutId, timers, activePhoto,
                         photoReqs, fetching, inv>>
          /\ emit' = <<>>]_vars

\* a fragment arrived while a query was processed, with timers still pending
C2_Witness ==
    /\ lastOp = "handleTranscription"
    /\ isProcessingQuery
    /\ Holders # {}
    /\ isListeningToQuery

\* C3: in wake-word mode, when the session neither processes nor listens, a
\* fragment whose cleaned text contains none of the wake-word variants does
\* not start listening and arms no debounce or hard-cutoff timer.
C3_NoWakeWordNoListening ==
    [][(/\ lastOp' = "handleTranscription"
        /\ isWakeWordRequired
        /\ ~isProcessingQuery
        /\ ~isListeningToQuery) =>
          \A f \in Fragments, stale \in BOOLEAN, within \in BOOLEAN :
              (handleTranscription(f, stale, within) /\ ~HasWakeWord(CleanText(f.text))) =>
                  /\ ~isListeningToQuery'
                  /\ timers' = timers
                  /\ timeoutId' = timeoutId
                  /\ maxListeningTimeoutId' = maxListeningTimeoutId
                  /\ transcriptionStartTime' = transcriptionStartTime
                  /\ emit' = <<>>]_vars

\* an idle wake-word session has just seen a fragment and still does not listen
C3_Witness ==
    /\ lastOp = "handleTranscription"
    /\ isWakeWordRequired
    /\ ~isProcessingQuery
    /\ ~isListeningToQuery
    /\ ListeningTimers = {}

(***************************************************************************)
(* Properties of the tool loop                                             *)
(***************************************************************************)
\* ToolResult messages of the log that answer the call with this id
ResultsFor(log, id) ==
    Cardinality({k \in 1..Len(log) : log[k].type = "tool" /\ log[k].callId = id})

\* no handleContext call is in the middle of a batch of tool calls
BetweenBatches == \A i \in Slots : inv[i].pc # "tool"

\* a handleContext call is awaiting llm.invoke on the current log
ModelInvoked == \E i \in Slots : inv[i].pc = "llm"

\* C4: for every batch of tool calls, by the time handleContext next invokes
\* the model or returns, as many ToolResults were appended for the batch as it
\* has ToolCalls, whether the tools were unknown, threw or ran.
C4_BatchFullyAnswered ==
    BetweenBatches =>
        \A k \in 1..Len(messages) :
            messages[k].type = "ai" =>
                LET calls == messages[k].calls
                    \* ToolResult messages that answer a call of the batch
                    results ==
                        {m \in 1..Len(messages) :
                            /\ messages[m].type = "tool"
                            /\ \E n \in 1..Len(calls) :
                                  calls[n].id = messages[m].callId}
                IN  Cardinality(results) = Len(calls)

\* C5: at every model invocation of a session, including the first one of a
\* later query that runs on the persisted log, every ToolCall of an AI message
\* in the log has exactly one ToolResult.
C5_EveryCallAnsweredAtInvoke ==
    ModelInvoked =>
        \A n \in 1..Len(CallsIn(messages)) :
            ResultsFor(messages, CallsIn(messages)[n].id) = 1

\* C6: handleContext invokes the model at most MaxTurns times per query, and a
\* call that returns no result made exactly MaxTurns invocations.
C6_TurnBudget ==
    /\ \A i \in Slots : inv[i].llmCalls <= MaxTurns
    /\ lastLlmCalls <= MaxTurns
    /\ lastResult.kind = "undefined" => lastLlmCalls = MaxTurns
    /\ \A i \in Slots :
          (inv[i].pc = "llm" /\ inv[i].llmCalls = MaxTurns) => inv[i].turns = MaxTurns - 1

\* a call whose responses all lacked the marker has returned without a result
C6_Witness ==
    /\ lastOp = "LLMReturn"
    /\ lastResult.kind = "undefined"
    /\ lastLlmCalls = MaxTurns
    /\ BetweenBatches /\ ~ModelInvoked

(***************************************************************************)
(* Properties of the processing lock and the listening window              *)
(***************************************************************************)
\* what resetListeningState establishes: not listening, no debounce and no
\* hard-cutoff timer pending, the lock free or a grace callback pending
Settled ==
    /\ ~isListeningToQuery
    /\ ListeningTimers = {}
    /\ timeoutId = NoTimer
    /\ maxListeningTimeoutId = NoTimer
    /\ ~isProcessingQuery \/ PendingOf("grace") # {}

\* a step in which an invocation that acquired the lock ends: a holder leaves,
\* or the empty-query path takes and releases the lock in one go
LockPathEnds ==
    \/ \E i \in Holders : inv'[i].pc = "free"
    \/ /\ lastOp' = "FetchDone"
       /\ ~isProcessingQuery
       /\ \E o \in FetchOutcomes :
             /\ o.kind = "ok"
             /\ Trim(QueryOf(o.segments)) = <<>>
             /\ FetchDone(o)

\* C7: every way a lock-holding processQuery invocation ends (answer, empty
\* query, gate suppression, exception) leaves the session not listening with
\* no debounce or hard-cutoff timer pending, and isProcessingQuery false at
\* once or once the grace callback runs; the lock is always backed by a
\* holder or a pending grace callback, and it is always released eventually.
C7_EveryExitReleases ==
    /\ [][LockPathEnds => Settled']_vars
    /\ [](isProcessingQuery => (Holders # {} \/ PendingOf("grace") # {}))
    /\ (isProcessingQuery ~> ~isProcessingQuery)

\* a query has just been answered: the holder left and the grace delay runs
C7_Witness ==
    /\ lastOp = "LLMReturn"
    /\ Holders = {}
    /\ isProcessingQuery
    /\ PendingOf("grace") # {}
    /\ ~isListeningToQuery
    /\ ListeningTimers = {}

\* C8: when the transcript fetch fails or its body lacks a segments array, the
\* user sees a retry notice and the session is back in Idle: not listening,
\* start time 0, no debounce and no hard-cutoff timer pending.
C8_FetchFailureReturnsToIdle ==
    [][lastOp' = "FetchDone" =>
          \A o \in FetchOutcomes :
              (o.kind # "ok" /\ FetchDone(o)) =>
                  /\ Len(emit') = 1 /\ emit'[1].ch = "show"
                  /\ ~isListeningToQuery'
                  /\ transcriptionStartTime' = 0
                  /\ ListeningTimers' = {}]_vars

\* C9: whenever isProcessingQuery is true, no debounce timer and no
\* hard-cutoff timer is pending.
C9_NoListeningTimerWhileProcessing ==
    isProcessingQuery => ListeningTimers = {}

\* C10: in every state where isListeningToQuery is true, a hard-cutoff timer
\* is pending or a processQuery invocation is in flight.
C10_ListeningIsBounded ==
    isListeningToQuery =>
        \/ PendingOf("cutoff") # {}
        \/ fetching > 0
        \/ Holders # {}

(***************************************************************************)
(* Properties of the debounce timer                                        *)
(***************************************************************************)
\* C11: at most one debounce timer is pending at any time, and it is the one
\* the latest accepted fragment armed (the one timeoutId names), so no timer
\* of an earlier fragment can fire.
C11_SingleDebounceTimer ==
    /\ Cardinality(PendingOf("debounce")) <= 1
    /\ \A t \in PendingOf("debounce") : HandleOf(t) = timeoutId

\* a fragment was accepted by a session that was listening already (no start
\* sound): exactly one debounce timer is pending, next to the cutoff
C11_Witness ==
    /\ lastOp = "handleTranscription"
    /\ isListeningToQuery
    /\ settings.speak
    /\ Len(emit) = 1
    /\ Cardinality(PendingOf("debounce")) = 1
    /\ PendingOf("cutoff") # {}

(***************************************************************************)
(* Properties of session teardown                                          *)
(***************************************************************************)
\* C12: once cleanup() has run at teardown, no debounce timer, no hard-cutoff
\* timer and no head-up window timer of the session is pending, so none of
\* their callbacks runs against the dead session.
C12_NoTimerAfterCleanup ==
    stopped =>
        PendingOf("debounce") \cup PendingOf("cutoff") \cup PendingOf("headWindow") = {}

(***************************************************************************)
(* Properties of the location context                                      *)
(***************************************************************************)
\* a string that is none of those standing for "not known" in a location context
KnownString(val) ==
    val \notin {"Unknown", "Unknown city", "Unknown state", "Unknown country"}

\* C13: over every sequence of location updates, a location field that holds
\* a known value is never replaced by an unknown placeholder (for the offset:
\* by 0); it changes only to another known value.
C13_KnownNeverOverwritten ==
    [][/\ KnownString(locationContext.city) => KnownString(locationContext'.city)
       /\ KnownString(locationContext.state) => KnownString(locationContext'.state)
       /\ KnownString(locationContext.country) => KnownString(locationContext'.country)
       /\ \A f \in {"name", "shortName", "fullName"} :
             KnownString(locationContext.timezone[f]) =>
                 KnownString(locationContext'.timezone[f])
       /\ locationContext.timezone.offsetSec # 0 =>
             locationContext'.timezone.offsetSec # 0]_vars

\* C14: merging the all-unknown fallback context leaves every field of the
\* stored context unchanged, DST flag included, whatever the stored context
\* is, and merging it twice is the same as merging it once.
C14_UnknownMergeIsNoOp ==
    LET fb == TypedInfo(fallbackLocationContext)
        once == updateLocationContext(locationContext, fb)
    IN  /\ once = locationContext
        /\ updateLocationContext(once, fb) = once

(***************************************************************************)
(* Properties of the handoff                                               *)
(***************************************************************************)
\* C15: when a tool invocation returns the handoff sentinel, handleContext
\* returns the sentinel in that very step: nothing is appended to the log, no
\* later call of the batch is awaited, and the model is not invoked again,
\* whether or not the model's text carried the terminal marker.
C15_HandoffReturnsAtOnce ==
    [][lastOp' = "ToolReturn" =>
          \A i \in Slots :
              (inv[i].pc = "tool" /\ ToolReturn(i, "handoff")) =>
                  /\ lastResult' = ResultHandoff
                  /\ inv'[i] = FreeSlot
                  /\ messages' = messages
                  /\ lastLlmCalls' = inv[i].llmCalls
                  /\ ~ModelInvoked' /\ BetweenBatches']_vars

\* the model answered with the marker and the batch [AppTool, Search_Engine];
\* AppTool handed off and handleContext returned with the batch unanswered
C15_Witness ==
    /\ lastOp = "ToolReturn"
    /\ lastResult = ResultHandoff
    /\ BetweenBatches /\ ~ModelInvoked
    /\ messages # <<>>
    /\ messages[Len(messages)].type = "ai"
    /\ HasFinalMarker(messages[Len(messages)].content)
    /\ Len(messages[Len(messages)].calls) = 2

\* C16: when the loop returns the handoff sentinel to processQuery, the step
\* that ends the query shows no text and speaks nothing: the only call it
\* issues is the empty text wall with which anim.stop() clears the spinner.
C16_HandoffRendersNothing ==
    [][(/\ lastOp' = "ToolReturn"
        /\ lastResult' = ResultHandoff
        /\ \E i \in Holders : inv[i].pc = "tool" /\ inv'[i].pc = "free") =>
          \A k \in 1..Len(emit') : emit'[k] = Show(<<>>)]_vars

\* processQuery has just received the sentinel: the holder is gone, the grace
\* delay runs and only the spinner was cleared
C16_Witness ==
    /\ lastOp = "ToolReturn"
    /\ lastResult = ResultHandoff
    /\ Holders = {}
    /\ isProcessingQuery
    /\ PendingOf("grace") # {}
    /\ emit = AnimStop
    /\ settings.speak

(***************************************************************************)
(* Properties of failing tools                                             *)
(***************************************************************************)
\* C17: a step of handleContext that resolves a call to an unregistered tool
\* (placeholder with status error) or to a tool that threw (error content)
\* never ends the loop by itself: every call of the batch up to the next
\* registered one has its ToolResult, the loop waits for that next call or,
\* the batch done, takes the ordinary exits: the answer if the response had
\* the marker, the next model invocation if the turn budget remains, no
\* result otherwise. A model response with the marker that follows such a
\* failure is returned as the answer.
C17_ToolFailureDoesNotEndLoop ==
    /\ [][lastOp' \in {"LLMReturn", "ToolReturn"} =>
            \A i \in Slots :
               LET log == messages'
                   failed == \E k \in (Len(messages) + 1)..Len(log) :
                                /\ log[k].type = "tool"
                                /\ \/ log[k].status = "error"
                                   \/ log[k].content = <<"Error executing tool">>
                   ai == CHOOSE k \in 1..Len(log) :
                            /\ log[k].type = "ai"
                            /\ \A j \in (k + 1)..Len(log) : log[j].type # "ai"
                   batch == log[ai].calls
                   done == Len(batch) - Len(inv'[i].calls)
               IN  /\ (inv[i].pc = "tool" /\ ToolReturn(i, "throw")) =>
                       failed /\ ResultsFor(log, Head(inv[i].calls).id) = 1
                   /\ (inv[i].pc \in {"llm", "tool"} /\ failed) =>
                       /\ \A n \in 1..done : ResultsFor(log, batch[n].id) = 1
                       /\ IF inv'[i].calls # <<>>
                          THEN /\ inv'[i].pc = "tool"
                               /\ Head(inv'[i].calls).name \in agentTools
                          ELSE IF HasFinalMarker(log[ai].content)
                          THEN /\ inv'[i].pc = "free"
                               /\ lastResult' = ResultText(ParseTable[log[ai].content])
                          ELSE IF inv[i].turns + 1 < MaxTurns
                          THEN /\ inv'[i].pc = "llm"
                               /\ inv'[i].llmCalls = inv[i].llmCalls + 1
                          ELSE /\ inv'[i].pc = "free"
                               /\ lastResult' = ResultUndefined]_vars
    /\ [][(/\ lastOp' = "LLMReturn"
            /\ messages # <<>>
            /\ messages[Len(messages)].type = "tool"
            /\ \/ messages[Len(messages)].status = "error"
               \/ messages[Len(messages)].content = <<"Error executing tool">>) =>
            \A i \in Slots :
               (inv[i].pc = "llm" /\ LLMReturn(i, OutFinal, <<>>)) =>
                   /\ inv'[i].pc = "free"
                   /\ lastResult' = ResultText(ParseTable[OutFinal])]_vars

\* the batch [Ghost, Search_Engine] got a placeholder and, Search_Engine
\* having thrown, an error result; the model was invoked again and its answer
\* was returned
C17_Witness ==
    /\ lastOp = "LLMReturn"
    /\ lastResult = ResultText(ParseTable[OutFinal])
    /\ lastLlmCalls = 2
    /\ BetweenBatches /\ ~ModelInvoked
    /\ Len(messages) >= 4
    /\ messages[Len(messages)].type = "ai"
    /\ messages[Len(messages) - 1].content = <<"Error executing tool">>
    /\ messages[Len(messages) - 2].status = "error"

(***************************************************************************)
(* Properties of a failing model call                                      *)
(***************************************************************************)
\* C18: when the model invocation throws, handleContext makes no further
\* model or tool call and returns the generic error string; processQuery
\* renders exactly that one message, resets the listening state and leaves
\* the lock to the grace callback.
C18_ModelThrowGenericError ==
    [][lastOp' = "LLMThrow" =>
          \A i \in Holders :
              (inv[i].pc = "llm" /\ inv'[i].pc = "free") =>
                  /\ lastResult' = ResultText(ErrorText)
                  /\ emit' = AnimStop \o showOrSpeakText(ErrorText)
                  /\ messages' = messages
                  /\ lastLlmCalls' = inv[i].llmCalls
                  /\ Settled' /\ isProcessingQuery' /\ PendingOf("grace")' # {}]_vars

(***************************************************************************)
(* Properties of the proactive gate                                        *)
(***************************************************************************)
\* C19: when the classifier call throws or its output is not usable JSON,
\* shouldRespondToAmbientSpeech returns shouldRespond = true, trigger
\* "fallback" and confidence 0, and processQuery goes on with the query: it
\* keeps the lock, gives the processing feedback and, once getPhoto settles
\* without a rejection, calls handleContext.
C19_GateFailsOpen ==
    /\ [][lastOp' = "GateDone" =>
            \A i \in Slots, o \in GateOutcomes :
               (o.kind # "json" /\ inv[i].pc = "gate" /\ GateDone(i, o)) =>
                   /\ DecisionTable[o].shouldRespond
                   /\ DecisionTable[o].trigger = <<"fallback">>
                   /\ DecisionTable[o].confidence = 0
                   /\ inv'[i].pc = "photo"
                   /\ inv'[i].trigger = <<"fallback">>
                   /\ isProcessingQuery'
                   /\ emit' # <<>>
                   /\ emit'[Len(emit')] = Show(<<"Processing query">>)]_vars
    /\ [][lastOp' = "PhotoDone" =>
            \A i \in Holders :
               (/\ inv[i].pc = "photo"
                /\ inv[i].trigger = <<"fallback">>
                /\ inv[i].photo # "reject"
                /\ inv'[i] # inv[i]) =>
                   /\ inv'[i].pc = "llm"
                   /\ inv'[i].llmCalls = 1]_vars

\* an ambient query whose gate fell back is inside handleContext
C19_Witness ==
    /\ lastOp = "PhotoDone"
    /\ ~isWakeWordRequired
    /\ isProcessingQuery
    /\ \E i \in Holders : inv[i].pc = "llm" /\ inv[i].trigger = <<"fallback">>

\* C20: in always-listening mode, when the gate returns shouldRespond =
\* false, the invocation ends in that step without calling handleContext and
\* without display or audio output, and the session is idle at once: not
\* listening, no debounce or hard-cutoff timer pending, isProcessingQuery
\* false with no grace delay.
C20_GateSuppressionIsSilent ==
    [][lastOp' = "GateDone" =>
          \A i \in Slots :
             (/\ inv[i].pc = "gate"
              /\ \E o \in GateOutcomes :
                    ~DecisionTable[o].shouldRespond /\ GateDone(i, o)) =>
                 /\ inv'[i] = FreeSlot
                 /\ UNCHANGED <<messages, lastResult, lastLlmCalls>>
                 /\ emit' = <<>>
                 /\ ~isListeningToQuery'
                 /\ ListeningTimers' = {}
                 /\ timeoutId' = NoTimer /\ maxListeningTimeoutId' = NoTimer
                 /\ transcriptionStartTime' = 0
                 /\ ~isProcessingQuery'
                 /\ PendingOf("grace")' \subseteq PendingOf("grace")]_vars

\* the gate has just suppressed an ambient query: no holder, lock free, not
\* listening, nothing shown
C20_Witness ==
    /\ lastOp = "GateDone"
    /\ ~isWakeWordRequired
    /\ Holders = {}
    /\ ~isProcessingQuery
    /\ ~isListeningToQuery
    /\ ListeningTimers = {}
    /\ emit = <<>>

(***************************************************************************)
(* Properties of the empty query                                           *)
(***************************************************************************)
\* C21: when processQuery finds the lock free and the query blank after
\* wake-word stripping, that step ends the invocation: handleContext is not
\* called (no slot is taken, the log and the last result stay), the notice
\* "No query provided." is the only output in wake-word mode and there is no
\* output in always-listening mode, and the session is idle at once: not
\* listening, no debounce or hard-cutoff timer, lock free, no grace callback
\* armed.
C21_BlankQuerySkipsLoop ==
    [][(/\ lastOp' = "FetchDone"
        /\ ~isProcessingQuery
        /\ \E o \in FetchOutcomes :
              /\ o.kind = "ok"
              /\ Trim(QueryOf(o.segments)) = <<>>
              /\ FetchDone(o)) =>
          /\ emit' = (IF isWakeWordRequired
                      THEN <<Show(<<"No query provided.">>)>>
                      ELSE <<>>)
          /\ UNCHANGED <<inv, messages, lastResult, lastLlmCalls>>
          /\ ~isProcessingQuery'
          /\ ~isListeningToQuery'
          /\ transcriptionStartTime' = 0
          /\ ListeningTimers' = {}
          /\ timeoutId' = NoTimer /\ maxListeningTimeoutId' = NoTimer
          /\ PendingOf("grace")' \subseteq PendingOf("grace")]_vars

\* a wake-word session heard only the wake word: the notice was shown and the
\* session is idle with the lock free
C21_Witness ==
    /\ lastOp = "FetchDone"
    /\ isWakeWordRequired
    /\ emit = <<Show(<<"No query provided.">>)>>
    /\ Holders = {}
    /\ ~isProcessingQuery
    /\ ~isListeningToQuery
    /\ ListeningTimers = {}

(***************************************************************************)
(* Properties of the timer event                                           *)
(***************************************************************************)
\* C22: when the tool named Timer returns the timer_set JSON, handleContext
\* appends its ToolResult and returns that raw content in the same step,
\* without another model invocation and whether or not the model's text had
\* the terminal marker; when any other tool returns the same JSON, the step
\* appends the ToolResult and the loop goes on: it returns in that step only
\* through the ordinary exits, never with the JSON as its result.
C22_TimerEventEndsLoop ==
    [][lastOp' = "ToolReturn" =>
          \A i \in Slots :
              (inv[i].pc = "tool" /\ ToolReturn(i, "timerJson")) =>
                  LET call == Head(inv[i].calls) IN
                  /\ Len(messages') > Len(messages)
                  /\ messages'[Len(messages) + 1] = ToolMessage(call, TimerJson)
                  /\ IF call.name = "Timer"
                     THEN /\ lastResult' = ResultText(TimerJson)
                          /\ inv'[i] = FreeSlot
                          /\ Len(messages') = Len(messages) + 1
                          /\ lastLlmCalls' = inv[i].llmCalls
                          /\ ~ModelInvoked'
                     ELSE IF Len(inv[i].calls) > 1
                               /\ \E n \in 2..Len(inv[i].calls) :
                                     inv[i].calls[n].name \in agentTools
                     THEN inv'[i].pc = "tool"
                     ELSE IF HasFinalMarker(inv[i].out)
                     THEN /\ inv'[i] = FreeSlot
                          /\ lastResult' = ResultText(ParseTable[inv[i].out])
                     ELSE IF inv[i].turns + 1 < MaxTurns
                     THEN /\ inv'[i].pc = "llm"
                          /\ inv'[i].llmCalls = inv[i].llmCalls + 1
                     ELSE /\ inv'[i] = FreeSlot
                          /\ lastResult' = ResultUndefined]_vars

\* the model answered without the marker and asked for [Timer, Search_Engine];
\* the Timer returned its event and handleContext returned it at once
C22_Witness ==
    /\ lastOp = "ToolReturn"
    /\ lastResult = ResultText(TimerJson)
    /\ BetweenBatches /\ ~ModelInvoked
    /\ Len(messages) >= 2
    /\ messages[Len(messages)] .name = "Timer"
    /\ messages[Len(messages) - 1].type = "ai"
    /\ ~HasFinalMarker(messages[Len(messages) - 1].content)
    /\ Len(messages[Len(messages) - 1].calls) = 2

\* C23: when the loop returns the timer_set JSON to processQuery, the step
\* that ends the query shows exactly one "Timer set ... for D seconds"
\* message and leaves one more timer pending for the session, the
\* timer-elapsed notification.
C23_TimerSetDispatched ==
    [][(/\ lastOp' = "ToolReturn"
        /\ lastResult' = ResultText(TimerJson)
        /\ \E i \in Holders : inv[i].pc = "tool" /\ inv'[i].pc = "free") =>
          /\ Cardinality({k \in 1..Len(emit') :
                             /\ emit'[k].ch = "show"
                             /\ emit'[k].text # <<>>
                             /\ Head(emit'[k].text) = "Timer set"}) = 1
          /\ \A k \in 1..Len(emit') : emit'[k].text # TimerJson
          /\ \E t \in timers' \ timers : t.kind = "timerElapsed"]_vars

(***************************************************************************)
(* Properties of the listening window                                      *)
(***************************************************************************)
\* C24: a listening window produces at most one final rendering (answer,
\* canned no-answer message, no-query notice or processing error): while the
\* first window of a session is the only one that started, at most one final
\* rendering was made, whichever timers started the processQuery invocations.
C24_OneRenderingPerWindow ==
    (window.on /\ window.started = 1) => window.renders <= 1

\* C25: the session moves Idle -> Listening -> Processing -> Idle in that
\* order: a step that sets isProcessingQuery to true is taken only in a state
\* where isListeningToQuery is true.
C25_ProcessingFollowsListening ==
    [][(~isProcessingQuery /\ isProcessingQuery') => isListeningToQuery]_vars

(***************************************************************************)
(* Properties of the head-up window                                        *)
(***************************************************************************)
\* C26: in wake-word mode with wake_requires_head_up on, a fragment starts
\* listening only while the head-up window is open, that is while the 10 s
\* timer armed by the most recent down-to-up transition is pending; a head
\* event opens or re-arms the window only if it is a down-to-up transition
\* with the flag on; and with the flag off the window never opens and every
\* wake-word fragment that reaches an idle session starts listening, whatever
\* the head events were.
C26_HeadUpWindowGatesWakeWord ==
    /\ [][(/\ lastOp' = "handleTranscription"
            /\ isWakeWordRequired /\ settings.wakeRequiresHeadUp
            /\ ~isListeningToQuery /\ isListeningToQuery') =>
              /\ headWakeWindowUntilMs = NowStamp + HeadWindowMs
              /\ \E t \in PendingOf("headWindow") :
                    HandleOf(t) = headWindowTimeoutId /\ t.arg = HeadWindowMs]_vars
    /\ [][lastOp' = "handleHeadPosition" =>
              \/ /\ settings.wakeRequiresHeadUp
                 /\ lastHeadPosition = "down" /\ lastHeadPosition' = "up"
                 /\ headWakeWindowUntilMs' = NowStamp + HeadWindowMs
                 /\ Cardinality(PendingOf("headWindow")') = 1
              \/ UNCHANGED <<headWakeWindowUntilMs, headWindowTimeoutId, timers>>]_vars
    /\ [][(/\ lastOp' = "handleTranscription"
            /\ isWakeWordRequired /\ ~settings.wakeRequiresHeadUp
            /\ ~isListeningToQuery /\ ~isProcessingQuery
            /\ \E f \in Fragments, within \in BOOLEAN :
                  HasWakeTable[f.text] /\ handleTranscription(f, FALSE, within)) =>
              isListeningToQuery']_vars
    /\ [](~settings.wakeRequiresHeadUp =>
              headWakeWindowUntilMs = 0 /\ PendingOf("headWindow") = {})

\* with the flag on, the head went down and up and a wake-word fragment
\* started listening while the head-up window was still open
C26_Witness ==
    /\ lastOp = "handleTranscription"
    /\ settings.wakeRequiresHeadUp
    /\ isListeningToQuery
    /\ lastHeadPosition = "up"
    /\ PendingOf("headWindow") # {}
    /\ PendingOf("debounce") # {}

(***************************************************************************)
(* Properties of the debounce duration                                     *)
(***************************************************************************)
\* C27: the debounce timer an accepted fragment arms runs 3000 ms for a
\* non-final fragment, 10000 ms for a final fragment whose cleaned text ends
\* with a wake word in wake-word mode, and 1500 ms for every other final
\* fragment, so always 1500 ms for a final fragment in always-listening
\* mode; whatever it is, it is shorter than the 15000 ms hard cutoff.
C27_DebounceDurations ==
    [][(lastOp' = "handleTranscription" /\ emit' # <<>>) =>
          \A f \in Fragments :
              (/\ emit'[Len(emit')] = ListeningDisplay(f)
               /\ \E stale \in BOOLEAN, within \in BOOLEAN :
                     handleTranscription(f, stale, within)) =>
                  LET c == CleanTable[f.text]
                      endsWithWake ==
                          \E n \in 1..Len(explicitWakeWords) :
                              LET w == toLowerCase(explicitWakeWords[n]) IN
                              /\ Len(w) <= Len(c)
                              /\ SubSeq(c, Len(c) - Len(w) + 1, Len(c)) = w
                      expected ==
                          IF ~f.isFinal THEN 3000
                          ELSE IF ~settings.alwaysListening /\ endsWithWake THEN 10000
                          ELSE 1500
                  IN  /\ \E t \in PendingOf("debounce")' :
                            /\ HandleOf(t) = timeoutId'
                            /\ t.arg = expected
                      /\ \A t \in PendingOf("debounce")' : t.arg < HardCutoffMs
                      /\ \A t \in PendingOf("cutoff")' : t.arg = 15000]_vars

\* a wake-word session accepted a final fragment that is only the wake word:
\* the long debounce is armed next to the hard cutoff
C27_Witness ==
    /\ lastOp = "handleTranscription"
    /\ isWakeWordRequired
    /\ isListeningToQuery
    /\ \E t \in PendingOf("debounce") : t.arg = DebounceWakeOnly
    /\ PendingOf("cutoff") # {}

(***************************************************************************)
(* Properties of the grace delay                                           *)
(***************************************************************************)
\* C28: the step in which the tool loop and the dispatcher finish, with an
\* answer or through the catch block, resets the listening flag, the start
\* time and both timers at once, keeps isProcessingQuery true and arms the
\* grace callback of 2000 ms; while the lock is held with no invocation
\* behind it, the grace callback is pending, every fragment is dropped, and
\* only the grace callback releases the lock, which it does when it runs.
C28_GraceDelayHoldsLock ==
    /\ [][(/\ lastOp' \in {"PhotoDone", "LLMReturn", "LLMThrow", "ToolReturn"}
            /\ \E i \in Holders : inv'[i].pc = "free") =>
              /\ isProcessingQuery /\ isProcessingQuery'
              /\ ~isListeningToQuery'
              /\ transcriptionStartTime' = 0
              /\ ListeningTimers' = {}
              /\ timeoutId' = NoTimer /\ maxListeningTimeoutId' = NoTimer
              /\ \E t \in PendingOf("grace")' \ timers : t.arg = 2000]_vars
    /\ [][(isProcessingQuery /\ Holders = {}) =>
              /\ PendingOf("grace") # {}
              /\ lastOp' = "handleTranscription" =>
                    emit' = <<>> /\ UNCHANGED <<ctrlVars, fetching, inv, photoVars>>
              /\ ~isProcessingQuery' => lastOp' = "GraceFire"
              /\ lastOp' = "GraceFire" => ~isProcessingQuery']_vars

\* the grace delay of an answered query has run out: the lock is free again
C28_Witness ==
    /\ lastOp = "GraceFire"
    /\ lastResult.kind = "text"
    /\ ~isProcessingQuery
    /\ ~isListeningToQuery
    /\ ListeningTimers = {}
    /\ Holders = {}

(***************************************************************************)
(* Properties of the order of tool calls                                   *)
(***************************************************************************)
\* C29: while handleContext works on the tool calls of a model response, it
\* awaits one tool at a time, the one next in the order of the response; the
\* ToolResults appended so far answer the calls before it, one each and in
\* that order; and when the loop invokes the model again, the ToolResults of
\* the whole batch follow the response in the order of its calls.
C29_ToolCallsInEmissionOrder ==
    LET log == messages
        \* position of the last AI message of the log, 0 if there is none
        p == IF \E k \in 1..Len(log) : log[k].type = "ai"
             THEN CHOOSE k \in 1..Len(log) :
                     /\ log[k].type = "ai"
                     /\ \A j \in (k + 1)..Len(log) : log[j].type # "ai"
             ELSE 0
        batch == IF p = 0 THEN <<>> ELSE log[p].calls
        \* the messages after the response answer, one each and in this
        \* order, the first n calls of the batch
        AnswersInOrder(n) ==
            /\ Len(log) = p + n
            /\ \A k \in 1..n :
                  /\ log[p + k].type = "tool"
                  /\ log[p + k].callId = batch[k].id
    IN  \A i \in Slots :
            LET done == Len(batch) - Len(inv[i].calls) IN
            /\ inv[i].pc = "tool" =>
                  /\ p > 0 /\ done >= 0
                  /\ inv[i].calls = SubSeq(batch, done + 1, Len(batch))
                  /\ AnswersInOrder(done)
            /\ (inv[i].pc = "llm" /\ inv[i].turns > 0) =>
                  /\ p > 0
                  /\ AnswersInOrder(Len(batch))

\* the model is invoked again after a response with an unknown and a
\* registered tool, both answered
C29_Witness ==
    \E i \in Slots :
        /\ inv[i].pc = "llm"
        /\ inv[i].turns > 0
        /\ Len(messages) >= 3
        /\ messages[Len(messages) - 2].type = "ai"
        /\ Len(messages[Len(messages) - 2].calls) = 2
        /\ messages[Len(messages) - 1].status = "error"
        /\ messages[Len(messages)].type = "tool"
        /\ messages[Len(messages)].status = ""

(***************************************************************************)
(* Properties of the photo cache                                           *)
(***************************************************************************)
\* C30: the session has one cache entry at most (activePhotos is read and
\* written under the session's id only); an entry that holds a photo has the
\* expiry callback of its own request pending, armed at capture, and that
\* callback discards the entry when it runs, whether or not a query read it;
\* a query gets a photo attached only from such an entry, or from the
\* request it was waiting for at the moment that request resolves.
C30_PhotoCacheExpires ==
    /\ [](activePhoto.data =>
            (/\ activePhoto.req \notin photoReqs
             /\ Cardinality({t \in PendingOf("photoTTL") : t.arg = activePhoto.req}) = 1))
    /\ [][/\ \A t \in PendingOf("photoTTL") :
              (lastOp' = "PhotoTtlFire" /\ t \notin timers' /\ t.arg = activePhoto.req) =>
                  activePhoto' = NoPhoto
          /\ (lastOp' # "PhotoTtlFire" /\ activePhoto.data /\ activePhoto' = NoPhoto) =>
                  lastOp' \in {"handleTranscription", "PhotoReject"}
          /\ \A i \in Slots :
              (/\ inv'[i].pc = "photo" /\ inv'[i].photo = "data"
               /\ ~(inv[i].pc = "photo" /\ inv[i].photo = "data")) =>
                  \/ /\ inv[i].pc # "photo"
                     /\ activePhoto = [req |-> inv'[i].req, data |-> TRUE]
                     /\ \E t \in PendingOf("photoTTL") : t.arg = activePhoto.req
                  \/ /\ inv[i].pc = "photo" /\ inv[i].photo = "wait"
                     /\ lastOp' = "PhotoResolve"
                     /\ inv[i].req \in photoReqs
                     /\ activePhoto' = [req |-> inv[i].req, data |-> TRUE]]_vars

\* a query read the cached photo while the expiry of that photo is pending
C30_Witness ==
    \E i \in Slots :
        /\ lastOp \in {"FetchDone", "GateDone"}
        /\ inv[i].pc = "photo"
        /\ inv[i].photo = "data"
        /\ activePhoto = [req |-> inv[i].req, data |-> TRUE]
        /\ \E t \in PendingOf("photoTTL") : t.arg = activePhoto.req

(***************************************************************************)
(* Properties of the notification buffer                                   *)
(***************************************************************************)
\* C31: getLatestNotifications(userId, n) returns, for every n >= 0, the last
\* min(n, total) notifications of that user in arrival order and leaves the
\* buffer as it was; the buffer of a user shrinks only in clearNotifications.
C31_LatestNotifications ==
    [][/\ \A userId \in {"u1", "u2"}, n \in 0..(MaxNotifications + 1) :
             getLatestNotifications(userId, n) =>
                 LET all == IF userId \in DOMAIN notificationsPerUser
                            THEN notificationsPerUser[userId] ELSE <<>>
                     k == IF n < Len(all) THEN n ELSE Len(all)
                 IN  /\ latestNotifications' = SubSeq(all, Len(all) - k + 1, Len(all))
                     /\ notificationsPerUser' = notificationsPerUser
       /\ \A userId \in DOMAIN notificationsPerUser :
             (\/ userId \notin DOMAIN notificationsPerUser'
              \/ Len(notificationsPerUser'[userId]) < Len(notificationsPerUser[userId]))
                 => lastOp' = "clearNotifications"]_vars

(***************************************************************************)
(* Properties of the conversational memory                                 *)
(***************************************************************************)
\* C32: the message log persists across the queries of a session, but what
\* it retains stays within a fixed bound: it never holds more messages than
\* the longest single exchange can append (the system and the human message,
\* MaxTurns model responses, and the tool results of the turns with calls),
\* however many queries came before.
C32_MemoryBounded ==
    LET longestExchange == 2 + MaxTurns + 2 * MaxRichTurns
    IN  Len(messages) <= longestExchange

(***************************************************************************)
(* Properties of the gate decision                                         *)
(***************************************************************************)
\* C33: whatever the classifier call yields, the decision processQuery gets
\* from shouldRespondToAmbientSpeech has a confidence between 0 and 1 (0 to
\* 100 hundredths) and a trigger that is one of direct_request, fact_check,
\* helpful_context, safety, notification, fallback.
C33_DecisionWellFormed ==
    [][lastOp' = "GateDone" =>
          \A o \in GateOutcomes :
              (\E i \in Slots : GateDone(i, o)) =>
                  /\ DecisionTable[o].confidence \in 0..100
                  /\ DecisionTable[o].trigger \in
                        {<<"direct_request">>, <<"fact_check">>, <<"helpful_context">>,
                         <<"safety">>, <<"notification">>, <<"fallback">>}]_vars

(***************************************************************************)
(* Properties of the tool results                                          *)
(***************************************************************************)
\* C34: no ToolResult of the log has empty content; a tool result that came
\* back empty is in the log with the canned "Tool executed successfully but
\* did not return any information." text.
C34_NoBlankToolResult ==
    /\ [](\A k \in 1..Len(messages) :
            messages[k].type = "tool" => messages[k].content # <<>>)
    /\ [][(lastOp' = "ToolReturn" /\ \E i \in Slots : ToolReturn(i, "empty")) =>
              /\ Len(messages') > Len(messages)
              /\ messages'[Len(messages) + 1].type = "tool"
              /\ messages'[Len(messages) + 1].content = CannedNoInfo]_vars

\* a tool came back empty and its ToolResult carries the canned text
C34_Witness ==
    /\ lastOp = "ToolReturn"
    /\ \E k \in 1..Len(messages) :
          /\ messages[k].type = "tool"
          /\ messages[k].name = "Search_Engine"
          /\ messages[k].content = CannedNoInfo

(***************************************************************************)
(* Properties of the final answer                                          *)
(***************************************************************************)
\* C35: when a model response without tool calls contains the marker,
\* handleContext returns everything after the first marker, trimmed, also
\* when the text holds the marker more than once.
C35_AnswerIsTextAfterMarker ==
    [][lastOp' = "LLMReturn" =>
          \A i \in Slots, out \in ModelOutputs :
              (HasFinalMarker(out) /\ inv[i].pc = "llm" /\ LLMReturn(i, out, <<>>)) =>
                  lastResult' =
                      ResultText(Trim(SubSeq(out, MarkerFrom(out, 1) + 1, Len(out))))]_vars

(***************************************************************************)
(* Properties of the outputs after teardown                                *)
(***************************************************************************)
\* C36: once onStop has run for the session, no step issues a display or
\* audio call to it, whatever processQuery invocation was still awaiting the
\* transcript fetch, the gate or the tool loop at that moment.
C36_NoOutputAfterStop == stopped => emit = <<>>

(***************************************************************************)
(* Properties of the delayed release                                       *)
(***************************************************************************)
\* C37: whenever the delayed callback of resetListeningState runs, no
\* processQuery invocation is between taking the lock and its own call of
\* resetListeningState; while such an invocation exists no delayed callback
\* is pending, so the callback of one query never releases the lock of a
\* later one.
C37_GraceNeverReleasesLaterLock ==
    /\ [](Holders # {} => (isProcessingQuery /\ PendingOf("grace") = {}))
    /\ [][lastOp' = "GraceFire" => (Holders = {} /\ Holders' = {})]_vars

\* the delayed callback ran while a later invocation awaits its transcript
C37_Witness ==
    /\ lastOp = "GraceFire"
    /\ ~isProcessingQuery
    /\ fetching > 0
    /\ Holders = {}

(***************************************************************************)
(* Properties of superseded photo requests                                 *)
(***************************************************************************)
\* C38: the cache entry belongs to the camera request issued last: while the
\* entry is the unsettled one of the latest request, the resolution or the
\* rejection of another, earlier request leaves it as it is.
C38_EntryOfLatestRequest ==
    [][\A r \in photoReqs :
          (/\ lastOp' \in {"PhotoResolve", "PhotoReject"}
           /\ r \notin photoReqs'
           /\ activePhoto # NoPhoto /\ ~activePhoto.data
           /\ activePhoto.req # r) =>
              activePhoto' = activePhoto]_vars

(***************************************************************************)
(* Properties of the hard-cutoff timer                                     *)
(***************************************************************************)
\* C39: at most one hard-cutoff timer is pending at any time, the one
\* maxListeningTimeoutId names; and a step arms a hard-cutoff timer exactly
\* when it is a fragment that moves the session from not listening to
\* listening.
C39_SingleCutoffTimer ==
    /\ [](/\ Cardinality(PendingOf("cutoff")) <= 1
          /\ \A t \in PendingOf("cutoff") : HandleOf(t) = maxListeningTimeoutId)
    /\ [][(PendingOf("cutoff")' \ PendingOf("cutoff") # {}) <=>
              (/\ lastOp' = "handleTranscription"
               /\ ~isListeningToQuery
               /\ isListeningToQuery')]_vars

\* after an answered query a fragment started listening again (start sound
\* played): exactly one hard-cutoff timer is pending
C39_Witness ==
    /\ lastOp = "handleTranscription"
    /\ lastResult.kind = "text"
    /\ settings.speak
    /\ Len(emit) = 2
    /\ isListeningToQuery
    /\ Cardinality(PendingOf("cutoff")) = 1

(***************************************************************************)
(* Properties of a fully known location update                             *)
(***************************************************************************)
\* C40: when handleLocation hands updateLocationContext an update in which
\* every field is known (an address with city, state and country, a timezone
\* with its three names, its offset and its DST flag), the context stored
\* afterwards equals the update field by field, offset and DST flag included.
C40_KnownUpdateStoredExactly ==
    [][lastOp' = "handleLocation" =>
          \A geo \in {g \in GeoOutcomes :
                         /\ g.kind = "address"
                         /\ \A f \in {"city", "state", "country"} :
                               g[f].ok /\ KnownString(g[f].v) /\ g[f] # Absent},
             tz \in {z \in TimezoneOutcomes :
                        /\ z.kind = "timezone"
                        /\ \A f \in {"name", "short_name", "full_name"} :
                              z[f].ok /\ KnownString(z[f].v) /\ z[f] # Absent} :
              handleLocation(TRUE, geo, tz) =>
                  LET info == LocationInfoOf(geo, tz) IN
                  /\ \A f \in {"city", "state", "country"} :
                        locationContext'[f] = info[f].v
                  /\ \A f \in {"name", "shortName", "fullName", "offsetSec", "isDst"} :
                        locationContext'.timezone[f] = info.timezone[f].v]_vars

====
